---- MODULE Spec2Model ----
(***************************************************************************)
(* Model of the APDU codec of skythen/apdu (apdu.go).                      *)
(*                                                                         *)
(* A byte is an integer in 0..255.  A Go byte slice is a record            *)
(* [arr, len]: arr is the part of the backing array the slice can reach    *)
(* (so Len(arr) is the slice's capacity) and len is its length.  Indexing  *)
(* is checked against len and slicing against the capacity, as the Go      *)
(* run time does; an access that fails these checks is a run-time panic.   *)
(*                                                                         *)
(* The variables mCapdu, mBuf and mRes hold the caller's Capdu, the byte   *)
(* slice and the result of ParseCapdu with every byte sequence cut into    *)
(* pages of 256 bytes, which keeps the values of a trace printable; capdu, *)
(* buf and res are these values with the byte sequences in one piece, and  *)
(* all operators of the codec work on those.  mRapdu and mRRes hold the    *)
(* caller's Rapdu and the result of ParseRapdu in the same way (rapdu and  *)
(* rres).  mStr is a hex string handed to one of the two hex-string        *)
(* parsers, a sequence of characters cut into pages as well (str), and ans *)
(* is the answer of the last                                               *)
(* query method called (IsExtendedLength, Lc, IsSuccess, IsWarning,        *)
(* IsError).                                                               *)
(*                                                                         *)
(* A second specification, SpecMem, looks at the same operations as        *)
(* readers and writers of memory.  heap is the sequence of the arrays      *)
(* allocated so far; a slice is a reference [id, off, len, cap] into       *)
(* heap[id], and a value's Data field is such a reference, so that two     *)
(* slices over one array see each other's writes.  There the caller holds  *)
(* the input hBuf and its hex string hStr, parses it into hVal, writes to  *)
(* the input, and then lets two threads call operations on hBuf, hStr and  *)
(* hVal; thr holds what each call returned, snap the memory when the       *)
(* calls began, hSeen the data of hVal when it was returned.               *)
(***************************************************************************)
EXTENDS Integers, Sequences, FiniteSets, TLC

VARIABLES pc, mCapdu, mBuf, mRes, origin, mRapdu, mRRes, mStr, ans,
          told, mOut, mPrev,
          heap, hBuf, hStr, hVal, hSeen, snap, thr, hpc

\* the variables of the calls on values: what the caller holds and was told
codvars == <<pc, mCapdu, mBuf, mRes, origin, mRapdu, mRRes, mStr, ans, told, mOut, mPrev>>

\* the variables of the calls on memory: arrays, and slices that point into them
memvars == <<heap, hBuf, hStr, hVal, hSeen, snap, thr, hpc>>

vars == <<codvars, memvars>>

(***************************************************************************)
(* Package constants (apdu.go, const block).                               *)
(***************************************************************************)
OffsetCla == 0
OffsetIns == 1
OffsetP1 == 2
OffsetP2 == 3
OffsetLcStandard == 4
OffsetLcExtended == 5
OffsetCdataStandard == 5
OffsetCdataExtended == 7
MaxLenCommandDataStandard == 255
MaxLenResponseDataStandard == 256
MaxLenCommandDataExtended == 65535
MaxLenResponseDataExtended == 65536
LenHeader == 4
LenLCStandard == 1
LenLCExtended == 3
LenResponseTrailer == 2

(***************************************************************************)
(* Bounds of the model.                                                    *)
(***************************************************************************)
\* bytes 0..MaxByte fill the exhaustively enumerated short inputs
MaxByte == 2
\* short inputs carry a body (the bytes behind the header) of 0..MaxBody bytes
MaxBody == 6
\* lengths and Ne values are taken within Slack of every boundary of the format
Slack == 1
\* data fields of 0..MaxSmallData bytes are enumerated besides the boundaries
MaxSmallData == 2

(***************************************************************************)
(* Go values.                                                              *)
(***************************************************************************)
\* type Capdu struct; Data holds the bytes of the slice (nil is the empty one)
Capdu(cla, ins, p1, p2, data, ne) ==
    [Cla |-> cla, Ins |-> ins, P1 |-> p1, P2 |-> p2, Data |-> data, Ne |-> ne]

\* Capdu{}: the zero value returned next to an error
ZeroCapdu == Capdu(0, 0, 0, 0, <<>>, 0)

\* type Rapdu struct; Data as in Capdu
Rapdu(data, sw1, sw2) == [Data |-> data, SW1 |-> sw1, SW2 |-> sw2]

\* Rapdu{}: the zero value returned next to an error
ZeroRapdu == Rapdu(<<>>, 0, 0)

\* []byte with its capacity: a slice of length n over the backing array arr
MkSlice(arr, n) == [arr |-> arr, len |-> n]

\* cap(s)
Cap(s) == Len(s.arr)

\* the bytes a slice holds, s[0], ..., s[len(s)-1]
Contents(s) == SubSeq(s.arr, 1, s.len)

\* s[i] succeeds iff 0 <= i < len(s)
IndexOK(s, i) == 0 <= i /\ i < s.len

\* s[i], 0-based as in Go
At(s, i) == s.arr[i + 1]

\* s[lo:hi] succeeds iff 0 <= lo <= hi <= cap(s)
SliceOK(s, lo, hi) == 0 <= lo /\ lo <= hi /\ hi <= Cap(s)

\* s[lo:hi]: shares the backing array, so the capacity reaches to its end
Slice(s, lo, hi) == MkSlice(SubSeq(s.arr, lo + 1, Cap(s)), hi - lo)

\* byte(x): conversion of an int to a byte keeps the low 8 bits
Byte(x) == x % 256

\* (byte)((x >> 8) & 0xFF)
HiByte(x) == (x \div 256) % 256

\* binary.BigEndian.Uint16(b) needs len(b) >= 2
Uint16OK(s) == IndexOK(s, 1)

\* binary.BigEndian.Uint16(b) = uint16(b[1]) | uint16(b[0])<<8
Uint16(s) == At(s, 1) + At(s, 0) * 256

(***************************************************************************)
(* Results of ParseCapdu.  err is "nil" or the kind of the error returned;  *)
(* "panic" stands for a run-time panic, where nothing is returned.  fmt    *)
(* and layout record which parser ran and at which return it left: they    *)
(* are observations of the control flow, not fields of the Go value.       *)
(* dataNil tells a Data field that is nil from one that is an empty slice  *)
(* of the input (both hold no bytes).                                      *)
(***************************************************************************)
\* return Capdu{Cla: c[OffsetCla], ..., Data: data, Ne: ne}, nil
Ok(c, data, ne, fmt, layout) ==
    [err |-> "nil",
     capdu |-> Capdu(At(c, OffsetCla), At(c, OffsetIns), At(c, OffsetP1),
                     At(c, OffsetP2), data, ne),
     fmt |-> fmt, layout |-> layout, dataNil |-> FALSE]

\* a return without a Data field, or with Data: nil
OkNoData(c, ne, fmt, layout) ==
    [Ok(c, <<>>, ne, fmt, layout) EXCEPT !.dataNil = TRUE]

\* Fail that leaves a default Ne in the value it returns
FailWithNe(kind, fmt) ==
    [err |-> kind, capdu |-> [ZeroCapdu EXCEPT !.Ne = MaxLenResponseDataStandard],
     fmt |-> fmt, layout |-> 0, dataNil |-> TRUE]

\* return Capdu{}, errors.Errorf(...)
Fail(kind, fmt) ==
    [err |-> kind, capdu |-> ZeroCapdu, fmt |-> fmt, layout |-> 0, dataNil |-> TRUE]

Panic(fmt) ==
    [err |-> "panic", capdu |-> ZeroCapdu, fmt |-> fmt, layout |-> 0, dataNil |-> TRUE]

NoResult ==
    [err |-> "none", capdu |-> ZeroCapdu, fmt |-> "none", layout |-> 0, dataNil |-> TRUE]

(***************************************************************************)
(* Results of ParseRapdu, in the same way.                                 *)
(***************************************************************************)
\* return Rapdu{Data: data, SW1: sw1, SW2: sw2}, nil
ROk(data, sw1, sw2, isNil) ==
    [err |-> "nil", rapdu |-> Rapdu(data, sw1, sw2), dataNil |-> isNil]

\* return Rapdu{}, errors.Errorf(...)
RFail(kind) == [err |-> kind, rapdu |-> ZeroRapdu, dataNil |-> TRUE]

RPanic == [err |-> "panic", rapdu |-> ZeroRapdu, dataNil |-> TRUE]

NoRResult == [err |-> "none", rapdu |-> ZeroRapdu, dataNil |-> TRUE]

(***************************************************************************)
(* Byte sequences in the state: pages of 256 bytes, the last one shorter.  *)
(***************************************************************************)
Pack(s) ==
    [p \in 1..((Len(s) + 255) \div 256) |->
        SubSeq(s, 256 * (p - 1) + 1, IF 256 * p <= Len(s) THEN 256 * p ELSE Len(s))]

\* pages[lo] \o ... \o pages[hi]
RECURSIVE Join(_, _, _)
Join(pages, lo, hi) ==
    IF lo > hi THEN <<>>
    ELSE IF lo = hi THEN pages[lo]
    ELSE LET mid == (lo + hi) \div 2 IN
         Join(pages, lo, mid) \o Join(pages, mid + 1, hi)

Unpack(pages) == Join(pages, 1, Len(pages))

PackCapdu(c) == [c EXCEPT !.Data = Pack(@)]

PackSlice(b) == [b EXCEPT !.arr = Pack(@)]

PackResult(r) == [r EXCEPT !.capdu = PackCapdu(@)]

\* the Capdu the caller built
capdu == [mCapdu EXCEPT !.Data = Unpack(@)]

\* the byte slice that capdu.Bytes() returned or that the caller received
buf == [mBuf EXCEPT !.arr = Unpack(@)]

\* what ParseCapdu(buf) returned
res == [mRes EXCEPT !.capdu = [@ EXCEPT !.Data = Unpack(@)]]

PackRapdu(r) == [r EXCEPT !.Data = Pack(@)]

PackRResult(r) == [r EXCEPT !.rapdu = PackRapdu(@)]

\* the hex string the caller holds
str == Unpack(mStr)

\* the Rapdu the caller built
rapdu == [mRapdu EXCEPT !.Data = Unpack(@)]

\* what ParseRapdu(buf) returned
rres == [mRRes EXCEPT !.rapdu = [@ EXCEPT !.Data = Unpack(@)]]

(***************************************************************************)
(* ParseCapdu and its two helpers (apdu.go, lines 67 to 173).              *)
(***************************************************************************)
\* the length check with the upper limit off by one
LengthValidOffByOne(n) == ~(n < LenHeader \/ n > 65545)

\* the length check of ParseCapdu: false iff len(c) < LenHeader || len(c) > 65544
LengthValid(n) == ~(n < LenHeader \/ n > 65544)

\* IsExtendedMarker that looks at the zero byte only, not at what follows it
IsExtendedMarkerZeroOnly(c) == At(c, OffsetLcStandard) = 0

\* "check for zero byte" and "check for extended length CAPDU":
\* c[OffsetLcStandard] == 0x00 and len(c[OffsetLcExtended:]) > 0
IsExtendedMarker(c) ==
    /\ At(c, OffsetLcStandard) = 0
    /\ Slice(c, OffsetLcExtended, c.len).len > 0

\* LcValidStandard that forgets the layout with a trailing Le
LcValidStandardNoLe(lc, bodyLen) == lc = bodyLen - LenLCStandard

\* lc != bodyLen-LenLCStandard && lc != bodyLen-LenLCStandard-1 rejects
LcValidStandard(lc, bodyLen) ==
    ~(lc # bodyLen - LenLCStandard /\ lc # bodyLen - LenLCStandard - 1)

\* LcValidExtended that takes the trailing Le for one byte, as in standard format
LcValidExtendedShortLe(lc, bodyLen) ==
    ~(lc # bodyLen - LenLCExtended /\ lc # bodyLen - LenLCExtended - 1)

\* lc != bodyLen-LenLCExtended && lc != bodyLen-LenLCExtended-2 rejects
LcValidExtended(lc, bodyLen) ==
    ~(lc # bodyLen - LenLCExtended /\ lc # bodyLen - LenLCExtended - 2)

\* NeStandard without the zero-means-maximum rule
NeStandardLiteral(le) == le

\* if le == 0 { ne = MaxLenResponseDataStandard } else { ne = le }
NeStandard(le) == IF le = 0 THEN MaxLenResponseDataStandard ELSE le

\* NeExtended without the zero-means-maximum rule
NeExtendedLiteral(le) == le

\* if le == 0x00 { ne = MaxLenResponseDataExtended } else { ne = le }
NeExtended(le) == IF le = 0 THEN MaxLenResponseDataExtended ELSE le

parseCapduStandardLength(c) ==
    IF c.len = LenHeader + LenLCStandard
    THEN \* STANDARD CASE 2 command: HEADER | LE
         IF ~IndexOK(c, OffsetLcStandard) THEN Panic("standard")
         ELSE LET ne == At(c, OffsetLcStandard) IN
              IF ne = 0
              THEN OkNoData(c, MaxLenResponseDataStandard, "standard", 2)
              ELSE OkNoData(c, ne, "standard", 2)
    ELSE LET bodyLen == c.len - LenHeader IN
         IF ~IndexOK(c, OffsetLcStandard) THEN Panic("standard")
         ELSE LET lc == At(c, OffsetLcStandard) IN
              IF ~LcValidStandard(lc, bodyLen) THEN Fail("InvalidLc", "standard")
              ELSE IF ~SliceOK(c, OffsetCdataStandard, OffsetCdataStandard + lc)
              THEN Panic("standard")
              ELSE LET data == Slice(c, OffsetCdataStandard, OffsetCdataStandard + lc) IN
                   IF c.len = LenHeader + LenLCStandard + data.len
                   THEN \* STANDARD CASE 3 command: HEADER | LC | DATA
                        Ok(c, Contents(data), 0, "standard", 3)
                   ELSE \* STANDARD CASE 4 command: HEADER | LC | DATA | LE
                        IF ~IndexOK(c, c.len - 1) THEN Panic("standard")
                        ELSE Ok(c, Contents(data), NeStandard(At(c, c.len - 1)),
                                "standard", 4)

parseCapduExtendedLength(c) ==
    IF c.len = LenHeader + LenLCExtended
    THEN \* EXTENDED CASE 2 command: HEADER | LE
         IF ~SliceOK(c, OffsetLcExtended, c.len) THEN Panic("extended")
         ELSE LET s == Slice(c, OffsetLcExtended, c.len) IN
              IF ~Uint16OK(s) THEN Panic("extended")
              ELSE OkNoData(c, NeExtended(Uint16(s)), "extended", 2)
    ELSE LET bodyLen == c.len - LenHeader IN
         IF ~SliceOK(c, OffsetLcExtended, OffsetLcExtended + 2) THEN Panic("extended")
         ELSE LET s == Slice(c, OffsetLcExtended, OffsetLcExtended + 2) IN
              IF ~Uint16OK(s) THEN Panic("extended")
              ELSE LET lc == Uint16(s) IN
                   IF ~LcValidExtended(lc, bodyLen) THEN Fail("InvalidLc", "extended")
                   ELSE IF ~SliceOK(c, OffsetCdataExtended, OffsetCdataExtended + lc)
                   THEN Panic("extended")
                   ELSE LET data == Slice(c, OffsetCdataExtended, OffsetCdataExtended + lc) IN
                        IF c.len = LenHeader + LenLCExtended + data.len
                        THEN \* EXTENDED CASE 3 command: HEADER | LC | DATA
                             Ok(c, Contents(data), 0, "extended", 3)
                        ELSE \* EXTENDED CASE 4 command: HEADER | LC | DATA | LE
                             IF ~SliceOK(c, c.len - 2, c.len) THEN Panic("extended")
                             ELSE LET t == Slice(c, c.len - 2, c.len) IN
                                  IF ~Uint16OK(t) THEN Panic("extended")
                                  ELSE Ok(c, Contents(data), NeExtended(Uint16(t)),
                                          "extended", 4)

ParseCapdu(c) ==
    IF ~LengthValid(c.len) THEN Fail("InvalidLength", "none")
    ELSE IF c.len = LenHeader
    THEN \* CASE 1 command: only HEADER
         OkNoData(c, 0, "none", 1)
    ELSE IF ~IndexOK(c, OffsetLcStandard) THEN Panic("none")
    ELSE IF At(c, OffsetLcStandard) = 0 /\ ~SliceOK(c, OffsetLcExtended, c.len)
    THEN Panic("none")
    ELSE IF IsExtendedMarker(c) THEN parseCapduExtendedLength(c)
    ELSE parseCapduStandardLength(c)

(***************************************************************************)
(* Capdu.Bytes and Capdu.determineCase (apdu.go, lines 238 to 387).        *)
(***************************************************************************)
determineCase(c) ==
    IF Len(c.Data) = 0 /\ c.Ne = 0 THEN 1
    ELSE IF Len(c.Data) = 0 /\ c.Ne > 0 THEN 2
    ELSE IF Len(c.Data) # 0 /\ c.Ne = 0 THEN 3
    ELSE 4

\* "truncate data if it exceeds max length"
TruncateDataLen(dataLen) ==
    IF dataLen > MaxLenCommandDataExtended THEN MaxLenCommandDataExtended ELSE dataLen

\* TruncateNe that does not clamp
TruncateNeNone(ne) == ne

\* "truncate ne if it exceeds max length"
TruncateNe(ne) ==
    IF ne > MaxLenResponseDataExtended THEN MaxLenResponseDataExtended ELSE ne

\* c.Data[:dataLen], taken in the extended branches of case 3 and case 4,
\* fails iff dataLen > cap(c.Data)
BytesPanics(c) ==
    LET extended3 == determineCase(c) = 3 /\ Len(c.Data) > MaxLenCommandDataStandard
        extended4 == /\ determineCase(c) = 4
                     /\ \/ c.Ne > MaxLenResponseDataStandard
                        \/ Len(c.Data) > MaxLenCommandDataStandard
    IN  (extended3 \/ extended4) /\ TruncateDataLen(Len(c.Data)) > Len(c.Data)

\* LcExtended without the leading zero byte
LcExtendedTwoBytes(dataLen) == <<HiByte(dataLen), Byte(dataLen)>>

\* lc := make([]byte, LenLCExtended); lc[1], lc[2] = high and low byte of dataLen
LcExtended(dataLen) == <<0, HiByte(dataLen), Byte(dataLen)>>

\* the two bytes of an extended Le: zero for the (truncated) maximum, else c.Ne
LeExtended(cNe) ==
    IF TruncateNe(cNe) = MaxLenResponseDataExtended
    THEN <<0, 0>>
    ELSE <<HiByte(cNe), Byte(cNe)>>

\* CASE 2: HEADER | LE
BytesCase2(c, header) ==
    IF c.Ne > MaxLenResponseDataStandard
    THEN header \o (<<0>> \o LeExtended(c.Ne))
    ELSE IF c.Ne = MaxLenResponseDataStandard
    THEN header \o <<0>>
    ELSE header \o <<Byte(c.Ne)>>

\* CASE 3: HEADER | LC | DATA
BytesCase3(c, header) ==
    IF Len(c.Data) > MaxLenCommandDataStandard
    THEN LET dataLen == TruncateDataLen(Len(c.Data)) IN
         header \o LcExtended(dataLen) \o SubSeq(c.Data, 1, dataLen)
    ELSE header \o <<Byte(Len(c.Data))>> \o c.Data

\* BytesCase4 that chooses the format of Lc by the data length alone
BytesCase4PerField(c, header) ==
    IF c.Ne > MaxLenResponseDataStandard \/ Len(c.Data) > MaxLenCommandDataStandard
    THEN LET dataLen == TruncateDataLen(Len(c.Data))
             lc == IF Len(c.Data) > MaxLenCommandDataStandard
                   THEN LcExtended(dataLen)
                   ELSE <<Byte(dataLen)>>
         IN  header \o lc \o SubSeq(c.Data, 1, dataLen) \o LeExtended(c.Ne)
    ELSE header \o <<Byte(Len(c.Data))>> \o c.Data \o <<Byte(c.Ne)>>

\* CASE 4: HEADER | LC | DATA | LE
BytesCase4(c, header) ==
    IF c.Ne > MaxLenResponseDataStandard \/ Len(c.Data) > MaxLenCommandDataStandard
    THEN LET dataLen == TruncateDataLen(Len(c.Data)) IN
         header \o LcExtended(dataLen) \o SubSeq(c.Data, 1, dataLen) \o LeExtended(c.Ne)
    ELSE header \o <<Byte(Len(c.Data))>> \o c.Data \o <<Byte(c.Ne)>>

\* func (c Capdu) Bytes() []byte
CapduBytes(c) ==
    LET ca == determineCase(c)
        header == <<c.Cla, c.Ins, c.P1, c.P2>>
    IN  CASE ca = 1 -> header
          [] ca = 2 -> BytesCase2(c, header)
          [] ca = 3 -> BytesCase3(c, header)
          [] OTHER -> BytesCase4(c, header)

(***************************************************************************)
(* ParseRapdu and Rapdu.Bytes (apdu.go, lines 193 to 218 and 419 to 437).  *)
(***************************************************************************)
\* the length check of ParseRapdu without an upper limit
RLengthValidNoMax(n) == ~(n < LenResponseTrailer)

\* the length check of ParseRapdu with the upper limit of ParseCapdu
RLengthValidAsCapdu(n) == ~(n < LenResponseTrailer \/ n > 65544)

\* the length check of ParseRapdu: false iff
\* len(b) < LenResponseTrailer || len(b) > 65538
RLengthValid(n) == ~(n < LenResponseTrailer \/ n > 65538)

\* func ParseRapdu(b []byte) (Rapdu, error); data stays nil unless
\* len(b) > LenResponseTrailer
ParseRapdu(b) ==
    IF ~RLengthValid(b.len) THEN RFail("InvalidLength")
    ELSE IF b.len = LenResponseTrailer
    THEN IF ~IndexOK(b, 1) THEN RPanic
         ELSE ROk(<<>>, At(b, 0), At(b, 1), TRUE)
    ELSE IF ~SliceOK(b, 0, b.len - LenResponseTrailer) \/ ~IndexOK(b, b.len - 1)
    THEN RPanic
    ELSE ROk(Contents(Slice(b, 0, b.len - LenResponseTrailer)),
             At(b, b.len - 2), At(b, b.len - 1), FALSE)

\* RapduBytesCap with the limit of command data
RapduBytesCapAsCommand(dataLen) ==
    IF dataLen > MaxLenCommandDataExtended THEN 65535 ELSE dataLen

\* RapduBytesCap that never truncates
RapduBytesCapAll(dataLen) == dataLen

\* cap(result) after make([]byte, 0, 65536) or make([]byte, 0, len(r.Data))
RapduBytesCap(dataLen) ==
    IF dataLen > MaxLenResponseDataExtended THEN 65536 ELSE dataLen

\* func (r Rapdu) Bytes() []byte: r.Data[:cap(result)], then SW1 and SW2;
\* cap(result) <= len(r.Data), so the slice expression cannot fail
RapduBytes(r) ==
    SubSeq(r.Data, 1, RapduBytesCap(Len(r.Data))) \o <<r.SW1, r.SW2>>

(***************************************************************************)
(* The query methods (apdu.go, lines 389 to 412 and 439 to 452).           *)
(***************************************************************************)
\* IsExtendedLength with the limits of its doc comment
IsExtendedLengthAsDocumented(c) ==
    c.Ne > MaxLenResponseDataExtended \/ Len(c.Data) > MaxLenCommandDataExtended

\* func (c Capdu) IsExtendedLength() bool
IsExtendedLength(c) ==
    c.Ne > MaxLenResponseDataStandard \/ Len(c.Data) > MaxLenCommandDataStandard

\* Lc that chooses its format as IsExtendedLength does
LcByFormat(c) ==
    IF Len(c.Data) = 0 THEN [bytes |-> <<>>, isNil |-> TRUE]
    ELSE IF IsExtendedLength(c)
    THEN [bytes |-> <<0, HiByte(Len(c.Data)), Byte(Len(c.Data))>>, isNil |-> FALSE]
    ELSE [bytes |-> <<Byte(Len(c.Data))>>, isNil |-> FALSE]

\* func (c Capdu) Lc() []byte
CapduLc(c) ==
    IF Len(c.Data) = 0 THEN [bytes |-> <<>>, isNil |-> TRUE]
    ELSE IF Len(c.Data) > MaxLenCommandDataStandard
    THEN [bytes |-> <<0, HiByte(Len(c.Data)), Byte(Len(c.Data))>>, isNil |-> FALSE]
    ELSE [bytes |-> <<Byte(Len(c.Data))>>, isNil |-> FALSE]

\* IsSuccess with || binding tighter than &&
IsSuccessLeftToRight(r) == (r.SW1 = 97 \/ r.SW1 = 144) /\ r.SW2 = 0

\* func (r Rapdu) IsSuccess() bool: r.SW1 == 0x61 || r.SW1 == 0x90 && r.SW2 == 0x00
IsSuccess(r) == r.SW1 = 97 \/ (r.SW1 = 144 /\ r.SW2 = 0)

\* IsWarning that takes 0x66 for a warning as well
IsWarningWith66(r) == r.SW1 = 98 \/ r.SW1 = 99 \/ r.SW1 = 102

\* func (r Rapdu) IsWarning() bool: r.SW1 == 0x62 || r.SW1 == 0x63
IsWarning(r) == r.SW1 = 98 \/ r.SW1 = 99

\* IsError for every SW1 from 0x61 to 0x6F
IsErrorAll6x(r) == r.SW1 >= 97 /\ r.SW1 <= 111

\* IsError without the gap at 0x66
IsErrorNoGap(r) == r.SW1 >= 100 /\ r.SW1 <= 111

\* func (r Rapdu) IsError() bool:
\* (r.SW1 == 0x64 || r.SW1 == 0x65) || (r.SW1 >= 0x67 && r.SW1 <= 0x6F)
IsError(r) == (r.SW1 = 100 \/ r.SW1 = 101) \/ (r.SW1 >= 103 /\ r.SW1 <= 111)

(***************************************************************************)
(* The hex-string parsers (apdu.go, lines 175 to 191 and 220 to 236).  A   *)
(* string is a sequence of characters.  hex.DecodeString accepts the       *)
(* digits in both cases of letters; it returns its result either in a      *)
(* buffer of its own or in the front of the converted string []byte(s),    *)
(* which then leaves the codes of the last characters behind the result as *)
(* spare capacity.                                                         *)
(***************************************************************************)
LowerDigits ==
    <<"0", "1", "2", "3", "4", "5", "6", "7", "8", "9", "a", "b", "c", "d", "e", "f">>

UpperDigits ==
    <<"0", "1", "2", "3", "4", "5", "6", "7", "8", "9", "A", "B", "C", "D", "E", "F">>

\* the value of every hex digit
HexValues ==
    [ch \in {LowerDigits[i] : i \in 1..16} \cup {UpperDigits[i] : i \in 1..16} |->
        (CHOOSE i \in 1..16 : LowerDigits[i] = ch \/ UpperDigits[i] = ch) - 1]

\* is ch a hex digit
IsHexChar(ch) == ch \in DOMAIN HexValues

\* the value of the hex digit ch
FromHexChar(ch) == HexValues[ch]

\* the character code of a hex digit: '0' is 48, 'A' is 65, 'a' is 97
CharCode(ch) ==
    LET v == FromHexChar(ch) IN
    IF v < 10 THEN 48 + v
    ELSE IF UpperDigits[v + 1] = ch THEN 65 + (v - 10)
    ELSE 97 + (v - 10)

\* hex.DecodeString(s) returns a nil error
DecodeOK(s) == Len(s) % 2 = 0 /\ \A i \in 1..Len(s) : IsHexChar(s[i])

\* the bytes hex.DecodeString(s) returns: one for each pair of digits
DecodedBytes(s) ==
    [i \in 1..(Len(s) \div 2) |-> 16 * FromHexChar(s[2 * i - 1]) + FromHexChar(s[2 * i])]

\* the slice hex.DecodeString(s) returns; inPlace tells that it is the front
\* of []byte(s)
DecodeString(s, inPlace) ==
    LET n == Len(s) \div 2
        behind == IF inPlace THEN [i \in 1..(Len(s) - n) |-> CharCode(s[n + i])] ELSE <<>>
    IN  MkSlice(DecodedBytes(s) \o behind, n)

\* ParseCapduHexString that asks for more than a header
ParseCapduHexStringNeedsBody(s, inPlace) ==
    IF Len(s) % 2 # 0 THEN Fail("OddLength", "none")
    ELSE IF Len(s) < 10 \/ Len(s) > 131088 THEN Fail("InvalidLength", "none")
    ELSE IF ~DecodeOK(s) THEN Fail("InvalidHex", "none")
    ELSE ParseCapdu(DecodeString(s, inPlace))

\* func ParseCapduHexString(s string) (Capdu, error)
ParseCapduHexString(s, inPlace) ==
    IF Len(s) % 2 # 0 THEN Fail("OddLength", "none")
    ELSE IF Len(s) < 8 \/ Len(s) > 131088 THEN Fail("InvalidLength", "none")
    ELSE IF ~DecodeOK(s) THEN Fail("InvalidHex", "none")
    ELSE ParseCapdu(DecodeString(s, inPlace))

\* func ParseRapduHexString(s string) (Rapdu, error)
ParseRapduHexString(s, inPlace) ==
    IF Len(s) % 2 # 0 THEN RFail("OddLength")
    ELSE IF Len(s) < 4 \/ Len(s) > 131076 THEN RFail("InvalidLength")
    ELSE IF ~DecodeOK(s) THEN RFail("InvalidHex")
    ELSE ParseRapdu(DecodeString(s, inPlace))

\* a hex-string parser that accepts lengths lo..hi gets as far as calling
\* its byte parser on the decoded string
Decodes(s, lo, hi) == Len(s) % 2 = 0 /\ ~(Len(s) < lo \/ Len(s) > hi) /\ DecodeOK(s)

(***************************************************************************)
(* Inputs.                                                                 *)
(***************************************************************************)
Headers == {<<0, 164, 4, 1>>, <<128, 242, 224, 2>>}

Near(k) == (k - Slack)..(k + Slack)

\* n bytes of data; the byte at position i is i mod 256 (built page by page)
Fill(n) ==
    LET page == [i \in 1..256 |-> i % 256]
        count == (n \div 256) + 1
    IN  SubSeq(Join([p \in 1..count |-> page], 1, count), 1, n)

NeValues ==
    Near(0) \cup Near(MaxLenResponseDataStandard) \cup Near(MaxLenResponseDataExtended)

DataLens ==
    (0..MaxSmallData) \cup Near(MaxLenCommandDataStandard)
        \cup Near(MaxLenCommandDataExtended)

Bodies == UNION {[1..n -> 0..MaxByte] : n \in 0..MaxBody}

\* backing arrays: headers cut short, bare headers, and a header with a body
ShortArrays ==
    {SubSeq(h, 1, k) : h \in Headers, k \in 0..LenHeader}
        \cup {<<0, 164, 4, 1>> \o body : body \in Bodies}

\* a slice either fills its backing array or leaves one byte of spare capacity
SpareCaps == {0, 1}

\* the bytes behind the header of a long input: a standard Lc, or an extended one
LongPrefixes ==
    {<<MaxLenCommandDataStandard>>}
        \cup {<<0, HiByte(l), Byte(l)>> :
                l \in Near(MaxLenResponseDataStandard) \cup Near(MaxLenCommandDataExtended)}

\* the longest standard and extended encodings, and the lengths around them
LongLens ==
    ((LenHeader + LenLCStandard + MaxLenCommandDataStandard - Slack)
        .. (LenHeader + LenLCExtended + MaxLenResponseDataStandard + 2 + Slack))
    \cup Near(LenHeader + LenLCExtended + MaxLenCommandDataExtended + 2)

\* a long input: header, prefix, and data bytes up to the length n
LongArray(pre, n) == <<0, 164, 4, 1>> \o pre \o Fill(n - LenHeader - Len(pre))

\* status words: every SW1 with a few SW2
StatusLows == {0, 1, 16, 136, 255}

\* 90 00, 61 10 and 6A 88, the status words that go with the long data fields
StatusSamples == {<<144, 0>>, <<97, 16>>, <<106, 136>>}

\* lengths of response data: short ones and those around the limit of Bytes
RDataLens == (0..MaxSmallData) \cup Near(MaxLenResponseDataExtended)

\* bytes of the short responses
RBytes == {0, 97, 144}

\* short responses: from too short for a trailer to a trailer behind data
RShortArrays == UNION {[1..n -> RBytes] : n \in 0..(LenResponseTrailer + MaxSmallData)}

\* lengths around the longest response ParseRapdu accepts
RLongLens == Near(MaxLenResponseDataExtended + LenResponseTrailer)

\* n zero bytes
Zeros(n) == [i \in 1..n |-> 0]

\* hex.EncodeToString with the given sequence of 16 digits
Encode(bytes, digits) ==
    [i \in 1..(2 * Len(bytes)) |->
        LET b == bytes[(i + 1) \div 2] IN
        digits[(IF i % 2 = 1 THEN b \div 16 ELSE b % 16) + 1]]

\* byte strings to be written in hex: headers cut short and headers with a body
HexArrays ==
    {SubSeq(h, 1, k) : h \in Headers, k \in 0..LenHeader}
        \cup {<<0, 164, 4, 1>> \o body : body \in UNION {[1..n -> {0, 1}] : n \in 0..MaxBody}}

\* a hex string as it is, without its last character, or with a character
\* that is no hex digit in the place of its first or last one
Damaged(s) ==
    {s} \cup (IF Len(s) = 0 THEN {}
              ELSE {SubSeq(s, 1, Len(s) - 1),
                    [s EXCEPT ![1] = "g"],
                    [s EXCEPT ![Len(s)] = "g"]})

HexStrings ==
    UNION {Damaged(Encode(a, digits)) : a \in HexArrays, digits \in {LowerDigits, UpperDigits}}

\* the longest inputs of ParseRapdu and ParseCapdu, and one byte more
LongHexBytes ==
    {MaxLenResponseDataExtended + LenResponseTrailer + d : d \in {0, 1}}
        \cup {LenHeader + LenLCExtended + MaxLenCommandDataExtended + 2 + d : d \in {0, 1}}

\* the hex string of Fill(n), built page by page
HexFill(n, digits) ==
    LET page == Encode([i \in 1..256 |-> i % 256], digits) \o <<>>
        count == (n \div 256) + 1
    IN  SubSeq(Join([p \in 1..count |-> page], 1, count), 1, 2 * n)

\* the hex string of n bytes: a header, the extended Lc of the longest data
\* field, and data; whole, or without its last character
LongHexString(n, digits, whole) ==
    LET s == Encode(<<0, 164, 4, 1, 0, 255, 255>>, digits) \o HexFill(n - 7, digits) IN
    IF whole THEN s ELSE SubSeq(s, 1, Len(s) - 1)

\* a slice that is nil: it points into no array
NilRef == [id |-> 0, off |-> 0, len |-> 0, cap |-> 0]

\* no value has been parsed
NoValue == [kind |-> "none"]

\* nothing has been called concurrently
NoSnap == [heap |-> <<>>, val |-> NoValue]

\* the calls that run concurrently
Threads == {1, 2}

\* the thread has not called
NoCall == [op |-> "none"]

\* the strict revision has not been called
NoOut == [op |-> "none", err |-> "none", bytes |-> <<>>, isNil |-> TRUE, text |-> <<>>]

\* no query method has been called
NoAnswer == [op |-> "none", val |-> FALSE, on |-> "none"]

(***************************************************************************)
(* The state machine: a caller holds a Capdu or a Rapdu it built, a byte   *)
(* slice it received, or a hex string; it serializes or queries a value    *)
(* and parses a slice or a string.                                         *)
(***************************************************************************)
\* the caller builds a Capdu
InitBuilt ==
    /\ pc = "built"
    /\ \E h \in Headers, n \in DataLens, ne \in NeValues :
          mCapdu = PackCapdu(Capdu(h[1], h[2], h[3], h[4], Fill(n), ne))
    /\ mBuf = PackSlice(MkSlice(<<>>, 0))
    /\ origin = "bytes"

\* the caller received a byte slice: a short one, with or without spare
\* capacity behind it, or a long one
InitReceived ==
    /\ pc = "received"
    /\ mCapdu = PackCapdu(ZeroCapdu)
    /\ \/ \E a \in ShortArrays, spare \in SpareCaps :
             /\ Len(a) >= spare
             /\ mBuf = PackSlice(MkSlice(a, Len(a) - spare))
       \/ \E pre \in LongPrefixes, n \in LongLens :
             mBuf = PackSlice(MkSlice(LongArray(pre, n), n))
    /\ origin = "raw"

\* the caller builds a Rapdu
InitRBuilt ==
    /\ pc = "rbuilt"
    /\ \E n \in RDataLens, sw1 \in 0..255, sw2 \in StatusLows :
          /\ n <= MaxSmallData \/ <<sw1, sw2>> \in StatusSamples
          /\ mRapdu = PackRapdu(Rapdu(Fill(n), sw1, sw2))
    /\ mCapdu = PackCapdu(ZeroCapdu)
    /\ mBuf = PackSlice(MkSlice(<<>>, 0))
    /\ mStr = Pack(<<>>)
    /\ origin = "rbytes"

\* the caller received the bytes of a response
InitRReceived ==
    /\ pc = "rreceived"
    /\ \/ \E a \in RShortArrays, spare \in SpareCaps :
             /\ Len(a) >= spare
             /\ mBuf = PackSlice(MkSlice(a, Len(a) - spare))
       \/ \E n \in RLongLens : mBuf = PackSlice(MkSlice(Fill(n), n))
    /\ mCapdu = PackCapdu(ZeroCapdu)
    /\ mRapdu = PackRapdu(ZeroRapdu)
    /\ mStr = Pack(<<>>)
    /\ origin = "rraw"

\* the caller holds a hex string
InitHex ==
    /\ pc = "hex"
    /\ \/ \E s \in HexStrings : mStr = Pack(s)
       \/ \E n \in LongHexBytes, whole \in BOOLEAN :
             mStr = Pack(LongHexString(n, UpperDigits, whole))
    /\ mCapdu = PackCapdu(ZeroCapdu)
    /\ mRapdu = PackRapdu(ZeroRapdu)
    /\ mBuf = PackSlice(MkSlice(<<>>, 0))
    /\ origin = "hex"

\* no memory is looked at while values are called on
MemIdle ==
    /\ heap = <<>>
    /\ hBuf = NilRef
    /\ hStr = <<>>
    /\ hVal = NoValue
    /\ hSeen = <<>>
    /\ snap = NoSnap
    /\ thr = [t \in Threads |-> NoCall]
    /\ hpc = "idle"

Init ==
    /\ mRes = PackResult(NoResult)
    /\ mRRes = PackRResult(NoRResult)
    /\ ans = NoAnswer
    /\ told = {}
    /\ mOut = NoOut
    /\ mPrev = Pack(<<>>)
    /\ MemIdle
    /\ \/ (InitBuilt \/ InitReceived) /\ mRapdu = PackRapdu(ZeroRapdu) /\ mStr = Pack(<<>>)
       \/ InitRBuilt
       \/ InitRReceived
       \/ InitHex

\* b := capdu.Bytes(): every make() in Bytes has the capacity of the final
\* length, so the result has no spare capacity; a failed slice expression
\* c.Data[:dataLen] would end the call in a panic
Serialize ==
    /\ pc \in {"built", "adopted"}
    /\ IF BytesPanics(capdu)
       THEN pc' = "panicked" /\ mBuf' = mBuf
       ELSE LET b == CapduBytes(capdu) IN
            pc' = "serialized" /\ mBuf' = PackSlice(MkSlice(b, Len(b)))
    /\ UNCHANGED <<mCapdu, mRes, origin, mRapdu, mRRes, mStr, ans, told, mOut, mPrev, memvars>>

\* res, err := ParseCapdu(buf)
Parse ==
    /\ pc \in {"serialized", "received"}
    /\ mRes' = PackResult(ParseCapdu(buf))
    /\ pc' = "parsed"
    /\ UNCHANGED <<mCapdu, mBuf, origin, mRapdu, mRRes, mStr, ans, told, mOut, mPrev, memvars>>

\* ext := capdu.IsExtendedLength()
AskExtended ==
    /\ pc = "built"
    /\ ans' = [op |-> "IsExtendedLength", val |-> IsExtendedLength(capdu), on |-> "built"]
    /\ pc' = "answered"
    /\ UNCHANGED <<mCapdu, mBuf, mRes, origin, mRapdu, mRRes, mStr, told, mOut, mPrev, memvars>>

\* lc := capdu.Lc()
AskLc ==
    /\ pc = "built" \/ (pc = "serialized" /\ origin = "bytes")
    /\ ans' = [op |-> "Lc", val |-> CapduLc(capdu), on |-> pc]
    /\ pc' = "answered"
    /\ UNCHANGED <<mCapdu, mBuf, mRes, origin, mRapdu, mRRes, mStr, told, mOut, mPrev, memvars>>

\* b := rapdu.Bytes(): the second append finds result full and moves it to a
\* larger array, so the result can have spare capacity (of zero bytes)
RSerialize ==
    /\ pc = "rbuilt"
    /\ \E spare \in SpareCaps :
          LET b == RapduBytes(rapdu) IN
          mBuf' = PackSlice(MkSlice(b \o Zeros(spare), Len(b)))
    /\ pc' = "rserialized"
    /\ UNCHANGED <<mCapdu, mRes, origin, mRapdu, mRRes, mStr, ans, told, mOut, mPrev, memvars>>

\* rres, err := ParseRapdu(buf)
RParse ==
    /\ pc \in {"rserialized", "rreceived"}
    /\ mRRes' = PackRResult(ParseRapdu(buf))
    /\ pc' = "rparsed"
    /\ UNCHANGED <<mCapdu, mBuf, mRes, origin, mRapdu, mStr, ans, told, mOut, mPrev, memvars>>

\* the Rapdu a status query is called on: the one the caller built, or the
\* one ParseRapdu returned without an error
CanAsk(op) ==
    \/ pc = "rbuilt"
    \/ pc = "rparsed" /\ mRRes.err = "nil"
    \/ pc = "ranswered" /\ ans.on = "built" /\ \A a \in told : a[1] # op

Asked == IF pc = "rparsed" THEN "parsed" ELSE "built"

Subject == IF pc = "rparsed" THEN rres.rapdu ELSE rapdu

\* ok := r.IsSuccess()
AskSuccess ==
    /\ CanAsk("IsSuccess")
    /\ ans' = [op |-> "IsSuccess", val |-> IsSuccess(Subject), on |-> Asked]
    /\ told' = told \cup {<<"IsSuccess", IsSuccess(Subject)>>}
    /\ pc' = "ranswered"
    /\ UNCHANGED <<mCapdu, mBuf, mRes, origin, mRapdu, mRRes, mStr, mOut, mPrev, memvars>>

\* ok := r.IsWarning()
AskWarning ==
    /\ CanAsk("IsWarning")
    /\ ans' = [op |-> "IsWarning", val |-> IsWarning(Subject), on |-> Asked]
    /\ told' = told \cup {<<"IsWarning", IsWarning(Subject)>>}
    /\ pc' = "ranswered"
    /\ UNCHANGED <<mCapdu, mBuf, mRes, origin, mRapdu, mRRes, mStr, mOut, mPrev, memvars>>

\* ok := r.IsError()
AskError ==
    /\ CanAsk("IsError")
    /\ ans' = [op |-> "IsError", val |-> IsError(Subject), on |-> Asked]
    /\ told' = told \cup {<<"IsError", IsError(Subject)>>}
    /\ pc' = "ranswered"
    /\ UNCHANGED <<mCapdu, mBuf, mRes, origin, mRapdu, mRRes, mStr, mOut, mPrev, memvars>>

\* res, err := ParseCapduHexString(str); mBuf keeps the decoded bytes handed
\* to ParseCapdu, if the call gets that far
ParseHex ==
    /\ pc = "hex"
    /\ \E inPlace \in BOOLEAN :
          LET s == str IN
          /\ mRes' = PackResult(ParseCapduHexString(s, inPlace))
          /\ mBuf' = IF Decodes(s, 8, 131088)
                     THEN PackSlice(DecodeString(s, inPlace))
                     ELSE mBuf
    /\ pc' = "hexparsed"
    /\ UNCHANGED <<mCapdu, origin, mRapdu, mRRes, mStr, ans, told, mOut, mPrev, memvars>>

\* rres, err := ParseRapduHexString(str); mBuf as in ParseHex
RParseHex ==
    /\ pc = "hex"
    /\ \E inPlace \in BOOLEAN :
          LET s == str IN
          /\ mRRes' = PackRResult(ParseRapduHexString(s, inPlace))
          /\ mBuf' = IF Decodes(s, 4, 131076)
                     THEN PackSlice(DecodeString(s, inPlace))
                     ELSE mBuf
    /\ pc' = "hexrparsed"
    /\ UNCHANGED <<mCapdu, mRes, origin, mRapdu, mStr, ans, told, mOut, mPrev, memvars>>

\* strings.ToUpper on a string of hex digits
ToUpper(s) == [i \in 1..Len(s) |-> UpperDigits[HexValues[s[i]] + 1]]

\* String(): strings.ToUpper(hex.EncodeToString(b))
HexString(b) == ToUpper(Encode(b, LowerDigits))

(***************************************************************************)
(* The strict revision: Bytes() and String() return an error instead of    *)
(* truncating.                                                             *)
(***************************************************************************)
\* return nil, errors.Errorf(...)
StrictFail(kind) == [err |-> kind, bytes |-> <<>>, isNil |-> TRUE]

\* return result, nil
StrictOk(b) == [err |-> "nil", bytes |-> b, isNil |-> FALSE]

\* le of the extended formats: 00 00 for 65536, else the two low bytes of Ne
StrictLe(ne) ==
    IF ne = MaxLenResponseDataExtended THEN <<0, 0>> ELSE <<HiByte(ne), Byte(ne)>>

\* the switch over the case in the strict Capdu.Bytes
StrictEncode(c) ==
    LET dataLen == Len(c.Data)
        ca == determineCase(c)
        header == <<c.Cla, c.Ins, c.P1, c.P2>>
        lc == <<0, HiByte(dataLen), Byte(dataLen)>>
    IN  CASE ca = 1 -> header
          [] ca = 2 ->
                IF c.Ne > MaxLenResponseDataStandard
                THEN header \o <<0>> \o StrictLe(c.Ne)
                ELSE header \o <<IF c.Ne = MaxLenResponseDataStandard THEN 0 ELSE Byte(c.Ne)>>
          [] ca = 3 ->
                IF dataLen > MaxLenCommandDataStandard
                THEN header \o lc \o c.Data
                ELSE header \o <<Byte(dataLen)>> \o c.Data
          [] OTHER ->
                IF c.Ne > MaxLenResponseDataStandard \/ dataLen > MaxLenCommandDataStandard
                THEN header \o lc \o c.Data \o StrictLe(c.Ne)
                ELSE header \o <<Byte(dataLen)>> \o c.Data \o <<Byte(c.Ne)>>

\* the strict Capdu.Bytes without the check of Ne
StrictCapduBytesAnyNe(c) ==
    IF Len(c.Data) > MaxLenCommandDataExtended THEN StrictFail("DataTooLong")
    ELSE StrictOk(StrictEncode(c))

\* func (c *Capdu) Bytes() ([]byte, error)
StrictCapduBytes(c) ==
    IF Len(c.Data) > MaxLenCommandDataExtended THEN StrictFail("DataTooLong")
    ELSE IF c.Ne > MaxLenResponseDataExtended THEN StrictFail("NeTooLarge")
    ELSE StrictOk(StrictEncode(c))

\* func (r *Rapdu) Bytes() ([]byte, error)
StrictRapduBytes(r) ==
    IF Len(r.Data) > MaxLenResponseDataExtended THEN StrictFail("DataTooLong")
    ELSE StrictOk(r.Data \o <<r.SW1, r.SW2>>)

\* func (c *Capdu) String() (string, error), func (r *Rapdu) String() (string, error):
\* b is what Bytes() returned
StrictString(b) ==
    IF b.err # "nil" THEN [err |-> b.err, text |-> <<>>]
    ELSE [err |-> "nil", text |-> HexString(b.bytes)]

\* what the strict call returned, with its sequences in pages
PackOut(op, b, text) ==
    [op |-> op, err |-> b.err, bytes |-> Pack(b.bytes), isNil |-> b.isNil,
     text |-> Pack(text)]

\* what the strict Bytes() or String() returned
out == [mOut EXCEPT !.bytes = Unpack(@), !.text = Unpack(@)]

\* String() is called on the values that are short or beyond the limit
Printable(n, limit) == n <= MaxLenResponseDataStandard \/ n > limit

\* b, err := capdu.Bytes() of the strict revision
StrictBytes ==
    /\ pc = "built"
    /\ mOut' = PackOut("Bytes", StrictCapduBytes(capdu), <<>>)
    /\ pc' = "strict"
    /\ UNCHANGED <<mCapdu, mBuf, mRes, origin, mRapdu, mRRes, mStr, ans, told, mPrev, memvars>>

\* s, err := capdu.String() of the strict revision
StrictCapduString ==
    /\ pc = "built"
    /\ Printable(Len(capdu.Data), MaxLenCommandDataExtended)
    /\ LET b == StrictCapduBytes(capdu) IN
          mOut' = PackOut("String", [b EXCEPT !.bytes = <<>>, !.isNil = TRUE],
                          StrictString(b).text)
    /\ pc' = "strict"
    /\ UNCHANGED <<mCapdu, mBuf, mRes, origin, mRapdu, mRRes, mStr, ans, told, mPrev, memvars>>

\* b, err := rapdu.Bytes() of the strict revision
RStrictBytes ==
    /\ pc = "rbuilt"
    /\ mOut' = PackOut("Bytes", StrictRapduBytes(rapdu), <<>>)
    /\ pc' = "rstrict"
    /\ UNCHANGED <<mCapdu, mBuf, mRes, origin, mRapdu, mRRes, mStr, ans, told, mPrev, memvars>>

\* s, err := rapdu.String() of the strict revision
StrictRapduString ==
    /\ pc = "rbuilt"
    /\ Printable(Len(rapdu.Data), MaxLenResponseDataExtended)
    /\ LET b == StrictRapduBytes(rapdu) IN
          mOut' = PackOut("String", [b EXCEPT !.bytes = <<>>, !.isNil = TRUE],
                          StrictString(b).text)
    /\ pc' = "rstrict"
    /\ UNCHANGED <<mCapdu, mBuf, mRes, origin, mRapdu, mRRes, mStr, ans, told, mPrev, memvars>>

\* c := res: the caller goes on with the Capdu that ParseCapdu returned for
\* the received bytes, and once more with the one it returned for c.Bytes();
\* mPrev keeps the bytes that were parsed
Adopt ==
    /\ pc = "parsed"
    /\ origin \in {"raw", "again"}
    /\ res.err = "nil"
    /\ mCapdu' = mRes.capdu
    /\ mPrev' = Pack(Contents(buf))
    /\ origin' = (IF origin = "raw" THEN "again" ELSE "twice")
    /\ mRes' = PackResult(NoResult)
    /\ mBuf' = PackSlice(MkSlice(<<>>, 0))
    /\ pc' = "adopted"
    /\ UNCHANGED <<mRapdu, mRRes, mStr, ans, told, mOut, memvars>>

Next ==
    \/ Serialize
    \/ Parse
    \/ AskExtended
    \/ AskLc
    \/ RSerialize
    \/ RParse
    \/ AskSuccess
    \/ AskWarning
    \/ AskError
    \/ ParseHex
    \/ RParseHex
    \/ StrictBytes
    \/ StrictCapduString
    \/ RStrictBytes
    \/ StrictRapduString
    \/ Adopt

Spec == Init /\ [][Next]_vars

(***************************************************************************)
(* The operations as readers and writers of memory.                        *)
(***************************************************************************)
\* the slice r as the codec sees it: the bytes it can reach, and its length
View(h, r) ==
    IF r.id = 0 THEN MkSlice(<<>>, 0)
    ELSE MkSlice(SubSeq(h[r.id], r.off + 1, r.off + r.cap), r.len)

\* the bytes the slice r holds
Deref(h, r) == Contents(View(h, r))

\* r[lo:hi]: the same array, further in
SubRef(r, lo, hi) ==
    [id |-> r.id, off |-> r.off + lo, len |-> hi - lo, cap |-> r.cap - lo]

\* r[i] = v
Store(h, r, i, v) == [h EXCEPT ![r.id][r.off + i + 1] = v]

\* the slice over the next array to be allocated, as make([]byte, n, c) gives it
Fresh(h, n, c) == [id |-> Len(h) + 1, off |-> 0, len |-> n, cap |-> c]

\* a parsed Capdu and a parsed Rapdu with the bytes of their Data
CapduAt(h, v) == Capdu(v.Cla, v.Ins, v.P1, v.P2, Deref(h, v.Data), v.Ne)

RapduAt(h, v) == Rapdu(Deref(h, v.Data), v.SW1, v.SW2)

\* ParseCapdu(b) on memory: data := c[OffsetCdataStandard : OffsetCdataStandard+lc]
\* (or the same at OffsetCdataExtended) is a slice of the input
MemParseCapdu(h, b) ==
    LET r == ParseCapdu(View(h, b))
        at == IF r.fmt = "extended" THEN OffsetCdataExtended ELSE OffsetCdataStandard
    IN  IF r.err # "nil" THEN NoValue
        ELSE [kind |-> "capdu",
              Cla |-> r.capdu.Cla, Ins |-> r.capdu.Ins,
              P1 |-> r.capdu.P1, P2 |-> r.capdu.P2,
              Data |-> IF r.dataNil THEN NilRef
                       ELSE SubRef(b, at, at + Len(r.capdu.Data)),
              Ne |-> r.capdu.Ne]

\* ParseRapdu(b) on memory: data = b[:len(b)-LenResponseTrailer] is a slice of
\* the input
MemParseRapdu(h, b) ==
    LET r == ParseRapdu(View(h, b)) IN
    IF r.err # "nil" THEN NoValue
    ELSE [kind |-> "rapdu",
          Data |-> IF r.dataNil THEN NilRef
                   ELSE SubRef(b, 0, b.len - LenResponseTrailer),
          SW1 |-> r.rapdu.SW1, SW2 |-> r.rapdu.SW2]

\* Capdu.Bytes that hands out the buffer of an earlier call with the same bytes
MemCapduBytesCached(h, v) ==
    LET b == CapduBytes(CapduAt(h, v))
        same == {id \in 2..Len(h) : h[id] = b}
    IN  IF same = {} THEN [heap |-> Append(h, b), out |-> Fresh(h, Len(b), Len(b))]
        ELSE [heap |-> h,
              out |-> [id |-> CHOOSE id \in same : TRUE, off |-> 0,
                       len |-> Len(b), cap |-> Len(b)]]

\* Capdu.Bytes on memory: every branch makes one array of the final length
\* and appends to it
MemCapduBytes(h, v) ==
    LET b == CapduBytes(CapduAt(h, v)) IN
    [heap |-> Append(h, b), out |-> Fresh(h, Len(b), Len(b))]

\* Rapdu.Bytes that appends the status word to r.Data where its capacity allows
MemRapduBytesInPlace(h, v, spare) ==
    LET data == Deref(h, v.Data)
        n == Len(data)
    IN  IF v.Data.id # 0 /\ v.Data.cap >= n + 2
        THEN [heap |-> Store(Store(h, v.Data, n, v.SW1), v.Data, n + 1, v.SW2),
              out |-> [v.Data EXCEPT !.len = n + 2]]
        ELSE [heap |-> Append(h, data \o <<v.SW1, v.SW2>> \o Zeros(spare)),
              out |-> Fresh(h, n + 2, n + 2 + spare)]

\* Rapdu.Bytes on memory: result is made with room for the data only, the
\* data is copied into it, and the append of SW1, SW2 moves it to a second,
\* larger array
MemRapduBytes(h, v, spare) ==
    LET data == Deref(h, v.Data)
        first == SubSeq(data, 1, RapduBytesCap(Len(data)))
        second == first \o <<v.SW1, v.SW2>>
    IN  [heap |-> h \o <<first, second \o Zeros(spare)>>,
         out |-> [id |-> Len(h) + 2, off |-> 0,
                  len |-> Len(second), cap |-> Len(second) + spare]]

\* Capdu.Lc on memory: lc is made unless Data is empty
MemLc(h, v) ==
    LET lc == CapduLc(CapduAt(h, v)) IN
    IF lc.isNil THEN [heap |-> h, out |-> NilRef]
    ELSE [heap |-> Append(h, lc.bytes), out |-> Fresh(h, Len(lc.bytes), Len(lc.bytes))]

\* the operations on a Capdu, on a Rapdu, on the input and on its hex string
CapduOps == {"Bytes", "String", "Lc", "IsExtendedLength"}

RapduOps == {"RBytes", "RString", "IsSuccess", "IsWarning", "IsError"}

InputOps == {"ParseCapdu", "ParseRapdu", "ParseCapduHexString", "ParseRapduHexString"}

\* the operations with an outcome the build chooses (opt): the spare capacity
\* of an appended slice, the buffer of hex.DecodeString
ChoiceOps == {"RBytes", "RString", "ParseCapduHexString", "ParseRapduHexString"}

\* what the operation op returns, called on the memory h
MemResult(op, h, b, s, v, opt) ==
    CASE op = "ParseCapdu" -> ParseCapdu(View(h, b))
      [] op = "ParseRapdu" -> ParseRapdu(View(h, b))
      [] op = "ParseCapduHexString" -> ParseCapduHexString(s, opt)
      [] op = "ParseRapduHexString" -> ParseRapduHexString(s, opt)
      [] op = "Bytes" -> CapduBytes(CapduAt(h, v))
      [] op = "String" -> HexString(CapduBytes(CapduAt(h, v)))
      [] op = "Lc" -> CapduLc(CapduAt(h, v))
      [] op = "IsExtendedLength" -> IsExtendedLength(CapduAt(h, v))
      [] op = "RBytes" -> RapduBytes(RapduAt(h, v))
      [] op = "RString" -> HexString(RapduBytes(RapduAt(h, v)))
      [] op = "IsSuccess" -> IsSuccess(RapduAt(h, v))
      [] op = "IsWarning" -> IsWarning(RapduAt(h, v))
      [] OTHER -> IsError(RapduAt(h, v))

\* what the operation op does to the memory h, and the slice it returns
MemEffect(op, h, s, v, opt) ==
    LET spare == IF opt THEN 1 ELSE 0 IN
    CASE op = "Bytes" -> MemCapduBytes(h, v)
      [] op = "String" -> [heap |-> MemCapduBytes(h, v).heap, out |-> NilRef]
      [] op = "Lc" -> MemLc(h, v)
      [] op = "RBytes" -> MemRapduBytes(h, v, spare)
      [] op = "RString" -> [heap |-> MemRapduBytes(h, v, spare).heap, out |-> NilRef]
      [] op \in {"ParseCapduHexString", "ParseRapduHexString"} ->
            [heap |-> IF DecodeOK(s) THEN Append(h, DecodeString(s, opt).arr) ELSE h,
             out |-> NilRef]
      [] OTHER -> [heap |-> h, out |-> NilRef]

\* the longest body of the inputs of the memory specification
MaxMemBody == 3

\* the inputs of the memory specification: a header with every body over two
\* byte values, and one extended-length command with and without Le
MemArrays ==
    {<<0, 164, 4, 1>> \o body : body \in UNION {[1..n -> {1, 2}] : n \in 0..MaxMemBody}}
        \cup {<<0, 164, 4, 1, 0, 0, 1, 2>>, <<0, 164, 4, 1, 0, 0, 1, 2, 0, 1>>}

\* the codec variables of the first specification, at rest
CodIdle ==
    /\ pc = "mem"
    /\ mCapdu = PackCapdu(ZeroCapdu)
    /\ mBuf = PackSlice(MkSlice(<<>>, 0))
    /\ mRes = PackResult(NoResult)
    /\ origin = "none"
    /\ mRapdu = PackRapdu(ZeroRapdu)
    /\ mRRes = PackRResult(NoRResult)
    /\ mStr = Pack(<<>>)
    /\ ans = NoAnswer
    /\ told = {}
    /\ mOut = NoOut
    /\ mPrev = Pack(<<>>)

\* the caller holds one array, a slice b of it with or without spare
\* capacity behind it, and the hex string of b
InitMem ==
    /\ CodIdle
    /\ \E a \in MemArrays, spare \in SpareCaps :
          /\ heap = <<a>>
          /\ hBuf = [id |-> 1, off |-> 0, len |-> Len(a) - spare, cap |-> Len(a)]
          /\ hStr = Encode(SubSeq(a, 1, Len(a) - spare), UpperDigits)
    /\ hVal = NoValue
    /\ hSeen = <<>>
    /\ snap = NoSnap
    /\ thr = [t \in Threads |-> NoCall]
    /\ hpc = "start"

\* c, err := ParseCapdu(b) by the caller
MemParse ==
    /\ hpc = "start"
    /\ LET v == MemParseCapdu(heap, hBuf) IN
          /\ hVal' = v
          /\ hSeen' = (IF v.kind = "none" THEN <<>> ELSE Deref(heap, v.Data))
          /\ hpc' = (IF v.kind = "none" THEN "failed" ELSE "parsed")
    /\ UNCHANGED <<heap, hBuf, hStr, snap, thr, codvars>>

\* r, err := ParseRapdu(b) by the caller
MemRParse ==
    /\ hpc = "start"
    /\ LET v == MemParseRapdu(heap, hBuf) IN
          /\ hVal' = v
          /\ hSeen' = (IF v.kind = "none" THEN <<>> ELSE Deref(heap, v.Data))
          /\ hpc' = (IF v.kind = "none" THEN "failed" ELSE "parsed")
    /\ UNCHANGED <<heap, hBuf, hStr, snap, thr, codvars>>

\* b[i] = 0xFF by the caller, after the parse has returned
WriteInput ==
    /\ hpc = "parsed"
    /\ \E i \in 0..(hBuf.len - 1) : heap' = Store(heap, hBuf, i, 255)
    /\ hpc' = "written"
    /\ UNCHANGED <<hBuf, hStr, hVal, hSeen, snap, thr, codvars>>

\* the operations thread t may call: those of the parsed value, and the
\* parsers on the input and on its hex string
Callable(op) ==
    \/ op \in InputOps
    \/ op \in CapduOps /\ hVal.kind = "capdu"
    \/ op \in RapduOps /\ hVal.kind = "rapdu"

\* thread t calls op and the call returns; the first call fixes the memory
\* the concurrent calls began with
Call(t, op, opt) ==
    /\ hpc \in {"parsed", "written", "failed", "calling"}
    /\ thr[t].op = "none"
    /\ t = 1 \/ thr[1].op # "none"
    /\ Callable(op)
    /\ opt => op \in ChoiceOps
    /\ snap' = (IF hpc = "calling" THEN snap ELSE [heap |-> heap, val |-> hVal])
    /\ LET e == MemEffect(op, heap, hStr, hVal, opt) IN
          /\ heap' = e.heap
          /\ thr' = [thr EXCEPT ![t] =
                        [op |-> op, opt |-> opt, out |-> e.out,
                         result |-> MemResult(op, heap, hBuf, hStr, hVal, opt)]]
    /\ hpc' = "calling"
    /\ UNCHANGED <<hBuf, hStr, hVal, hSeen, codvars>>

\* out[i] = 0xFF by the thread that holds the returned slice out
WriteOutput ==
    /\ hpc = "calling"
    /\ \E t \in Threads :
          /\ thr[t].op # "none"
          /\ thr[t].out.id # 0
          /\ thr[t].out.len > 0
          /\ \E i \in {0, thr[t].out.len - 1} : heap' = Store(heap, thr[t].out, i, 255)
    /\ hpc' = "touched"
    /\ UNCHANGED <<hBuf, hStr, hVal, hSeen, snap, thr, codvars>>

NextMem ==
    \/ MemParse
    \/ MemRParse
    \/ WriteInput
    \/ \E t \in Threads, op \in InputOps \cup CapduOps \cup RapduOps, opt \in BOOLEAN :
          Call(t, op, opt)
    \/ WriteOutput

SpecMem == InitMem /\ [][NextMem]_vars

TypeOK ==
    /\ pc \in {"built", "received", "serialized", "panicked", "parsed", "answered", "mem", "strict", "rstrict", "adopted",
              "rbuilt", "rreceived", "rserialized", "rparsed", "ranswered",
              "hex", "hexparsed", "hexrparsed"}
    /\ res.err \in {"none", "nil", "InvalidLength", "InvalidLc", "panic",
                   "OddLength", "InvalidHex"}
    /\ rres.err \in {"none", "nil", "InvalidLength", "panic", "OddLength", "InvalidHex"}

(***************************************************************************)
(* Vocabulary of the properties.                                           *)
(***************************************************************************)
\* the call ParseCapdu(buf) has been made
Parsed == pc = "parsed"

\* the call parsed the result of capdu.Bytes()
ParsedBack == pc = "parsed" /\ origin = "bytes"

\* the bytes handed to ParseCapdu, b[0], ..., b[len(b)-1], as a sequence
Input == Contents(buf)

\* b[i], 0-based, of the input
InByte(i) == buf.arr[i + 1]

\* b[lo .. hi), 0-based and half open, of the input
InRange(lo, hi) == SubSeq(buf.arr, lo + 1, hi)

\* the header fields of the result are bytes 0..3 of the input
HeaderCopied ==
    /\ res.capdu.Cla = InByte(0)
    /\ res.capdu.Ins = InByte(1)
    /\ res.capdu.P1 = InByte(2)
    /\ res.capdu.P2 = InByte(3)

\* the data model of the specification: 0 <= Ne <= 65536, len(Data) <= 65535
InLimits(c) == 0 <= c.Ne /\ c.Ne <= 65536 /\ Len(c.Data) <= 65535

\* big-endian value of two bytes
BigEndian(hi, lo) == 256 * hi + lo

(***************************************************************************)
(* Properties.                                                             *)
(***************************************************************************)
\* C1: CAPDU round trip.  For every Capdu c with 0 <= Ne <= 65536 and
\* len(Data) <= 65535, c.Bytes() returns and ParseCapdu(c.Bytes()) succeeds
\* with a Capdu equal to c field by field (Cla, Ins, P1, P2, Ne, and Data as
\* a byte sequence), in every case and in both length formats.
C1_RoundTrip ==
    /\ (pc = "panicked" => ~InLimits(capdu))
    /\ (ParsedBack /\ InLimits(capdu)) => (res.err = "nil" /\ res.capdu = capdu)

\* 256 data bytes with Ne = 256 (an extended case 4 whose Le is 0x01 0x00)
\* went through Bytes and ParseCapdu and came back unchanged
C1_Witness ==
    /\ ParsedBack
    /\ Len(capdu.Data) = 256 /\ capdu.Ne = 256
    /\ res.fmt = "extended" /\ res.layout = 4
    /\ res.capdu = capdu

\* C2: ParseCapdu is total and never panics.  For every byte sequence,
\* whatever its length, content and capacity, the call ends by returning a
\* Capdu with a nil error or an error value; no slice or index expression
\* fails.
C2_NeverPanics == Parsed => res.err \in {"nil", "InvalidLength", "InvalidLc"}

\* what C3 says of one input: the extended parser runs iff b[4] = 0 and
\* len(b) >= 6, the standard parser otherwise; a 5-byte input is accepted as a
\* standard case 2 without data, with Ne = b[4], or 256 when b[4] = 0
MarkerRule ==
    /\ res.fmt = "extended" <=> (InByte(4) = 0 /\ buf.len >= 6)
    /\ res.fmt = "standard" <=> ~(InByte(4) = 0 /\ buf.len >= 6)
    /\ buf.len = 5 =>
          /\ res.err = "nil" /\ res.fmt = "standard" /\ res.layout = 2
          /\ HeaderCopied
          /\ res.capdu.Data = <<>>
          /\ res.capdu.Ne = (IF InByte(4) = 0 THEN 256 ELSE InByte(4))

\* C3 as stated: extended-length marker rule for every input longer than 4
\* bytes: ParseCapdu uses extended-length parsing iff b[4] = 0x00 and
\* len(b) >= 6, and standard parsing otherwise; every 5-byte input is a
\* standard case 2.
C3_MarkerRuleAnyLength == (Parsed /\ buf.len > 4) => MarkerRule

\* C3, amended: the extended-length marker rule holds for every input of 5
\* to 65544 bytes (a longer input is rejected for its length before the
\* marker is looked at, and neither parser runs).
C3_MarkerRule == (Parsed /\ buf.len > 4 /\ buf.len <= 65544) => MarkerRule

\* a 6-byte input with b[4] = 0 went to the extended parser, which rejected it
C3_Witness ==
    /\ Parsed /\ buf.len = 6 /\ InByte(4) = 0
    /\ res.fmt = "extended" /\ res.err = "InvalidLc"

\* what C4 says of one input with b[4] # 0: Lc = b[4] must be bodyLen - 1
\* (case 3) or bodyLen - 2 (case 4, Ne from the last byte, 256 for 0), and
\* Data = b[5 .. 5+Lc); anything else is an invalid-Lc error
StandardRule ==
    LET Lc == InByte(4)
        bodyLen == buf.len - 4
    IN  IF Lc = bodyLen - 1
        THEN /\ res.err = "nil" /\ res.layout = 3
             /\ HeaderCopied
             /\ res.capdu.Data = InRange(5, 5 + Lc)
             /\ res.capdu.Ne = 0
        ELSE IF Lc = bodyLen - 2
        THEN /\ res.err = "nil" /\ res.layout = 4
             /\ HeaderCopied
             /\ res.capdu.Data = InRange(5, 5 + Lc)
             /\ res.capdu.Ne = (IF InByte(buf.len - 1) = 0 THEN 256
                                ELSE InByte(buf.len - 1))
        ELSE res.err = "InvalidLc"

\* C4 as stated: standard-length parsing of Lc for every input of at least 6
\* bytes with b[4] # 0: case 3 if Lc = bodyLen - 1, case 4 if
\* Lc = bodyLen - 2, an invalid-Lc error in every other case.
C4_StandardAnyLength == (Parsed /\ buf.len >= 6 /\ InByte(4) # 0) => StandardRule

\* C4, amended: the same for every input of 6 to 65544 bytes with b[4] # 0
\* (a longer input gets the invalid-length error, not the invalid-Lc error).
C4_Standard ==
    (Parsed /\ buf.len >= 6 /\ buf.len <= 65544 /\ InByte(4) # 0) => StandardRule

\* the longest standard case 4, 255 data bytes and an Le byte, was parsed
C4_Witness ==
    /\ Parsed /\ origin = "raw" /\ buf.len = 261 /\ InByte(4) = 255
    /\ res.err = "nil" /\ res.layout = 4 /\ Len(res.capdu.Data) = 255

\* what C5 says of one input with b[4] = 0: with bodyLen = 3 a case 2 whose
\* Ne is the big-endian value of b[5], b[6] (65536 for 0); else Lc is that
\* value and must be bodyLen - 3 (case 3) or bodyLen - 5 (case 4, Ne from the
\* last two bytes, 65536 for 0), with Data = b[7 .. 7+Lc); anything else is
\* an invalid-Lc error
ExtendedRule ==
    LET bodyLen == buf.len - 4
        Lc == BigEndian(InByte(5), InByte(6))
        le == BigEndian(InByte(buf.len - 2), InByte(buf.len - 1))
    IN  IF bodyLen = 3
        THEN /\ res.err = "nil" /\ res.layout = 2
             /\ HeaderCopied
             /\ res.capdu.Data = <<>>
             /\ res.capdu.Ne = (IF Lc = 0 THEN 65536 ELSE Lc)
        ELSE IF Lc = bodyLen - 3
        THEN /\ res.err = "nil" /\ res.layout = 3
             /\ HeaderCopied
             /\ res.capdu.Data = InRange(7, 7 + Lc)
             /\ res.capdu.Ne = 0
        ELSE IF Lc = bodyLen - 5
        THEN /\ res.err = "nil" /\ res.layout = 4
             /\ HeaderCopied
             /\ res.capdu.Data = InRange(7, 7 + Lc)
             /\ res.capdu.Ne = (IF le = 0 THEN 65536 ELSE le)
        ELSE res.err = "InvalidLc"

\* C5 as stated: extended-length parsing for every input of at least 7 bytes
\* with b[4] = 0: case 2 if bodyLen = 3, case 3 if Lc = bodyLen - 3, case 4 if
\* Lc = bodyLen - 5, an invalid-Lc error in every other case.
C5_ExtendedAnyLength == (Parsed /\ buf.len >= 7 /\ InByte(4) = 0) => ExtendedRule

\* C5, amended: the same for every input of 7 to 65544 bytes with b[4] = 0
\* (a longer input gets the invalid-length error, not the invalid-Lc error).
C5_Extended ==
    (Parsed /\ buf.len >= 7 /\ buf.len <= 65544 /\ InByte(4) = 0) => ExtendedRule

\* the longest CAPDU, 65544 bytes with Lc = 65535 and a two-byte Le, was parsed
C5_Witness ==
    /\ Parsed /\ origin = "raw" /\ buf.len = 65544
    /\ InByte(4) = 0 /\ InByte(5) = 255 /\ InByte(6) = 255
    /\ res.err = "nil" /\ res.layout = 4 /\ Len(res.capdu.Data) = 65535

\* the result of capdu.Bytes() is in buf
Serialized == origin = "bytes" /\ pc \in {"serialized", "parsed"}

\* the last byte and the last two bytes of buf
LastByte == InByte(buf.len - 1)

LastTwo == <<InByte(buf.len - 2), InByte(buf.len - 1)>>

\* the format Bytes is to choose: extended iff len(Data) > 255 or Ne > 256
WantsExtended(c) == Len(c.Data) > 255 \/ c.Ne > 256

\* C6: zero means maximum, in both directions.  Bytes() ends a standard
\* encoding of Ne = 256 with the Le byte 0x00 and an extended encoding of
\* Ne = 65536 with the Le bytes 0x00 0x00, and writes every other Ne of
\* 1..65536 as its literal value; ParseCapdu decodes a standard Le of 0x00 as
\* 256 and an extended Le of 0x0000 as 65536, so that an Le field it
\* recognises gives Ne in 1..256 (standard) or 1..65536 (extended), never 0.
C6_ZeroMeansMax ==
    /\ (Serialized /\ 1 <= capdu.Ne /\ capdu.Ne <= 65536) =>
          IF WantsExtended(capdu)
          THEN LastTwo = (IF capdu.Ne = 65536 THEN <<0, 0>>
                          ELSE <<capdu.Ne \div 256, capdu.Ne % 256>>)
          ELSE LastByte = (IF capdu.Ne = 256 THEN 0 ELSE capdu.Ne)
    /\ (Parsed /\ res.err = "nil" /\ res.layout \in {2, 4}) =>
          /\ res.fmt \in {"standard", "extended"}
          /\ res.fmt = "standard" =>
                /\ res.capdu.Ne = (IF LastByte = 0 THEN 256 ELSE LastByte)
                /\ res.capdu.Ne \in 1..256
          /\ res.fmt = "extended" =>
                /\ res.capdu.Ne = (IF LastTwo = <<0, 0>> THEN 65536
                                   ELSE BigEndian(LastTwo[1], LastTwo[2]))
                /\ res.capdu.Ne \in 1..65536

\* a received extended case 4 whose Le is 0x00 0x00 was parsed to Ne = 65536
C6_Witness ==
    /\ Parsed /\ origin = "raw"
    /\ res.err = "nil" /\ res.fmt = "extended" /\ res.layout = 4
    /\ LastTwo = <<0, 0>>
    /\ res.capdu.Ne = 65536

\* the case of the table of cases, from (len(Data) > 0, Ne > 0)
CaseOfShape(hasData, hasNe) ==
    IF ~hasData /\ ~hasNe THEN 1
    ELSE IF ~hasData /\ hasNe THEN 2
    ELSE IF hasData /\ ~hasNe THEN 3
    ELSE 4

\* C7: case inference.  For every Capdu, whatever Data and whatever integer
\* Ne it holds, the case Bytes() uses is the one the pair
\* (len(Data) > 0, Ne > 0) gives: case 1 (header only) for (false, false),
\* case 2 for (false, true), case 3 for (true, false), case 4 for (true, true).
C7_CaseByShape ==
    Serialized =>
        /\ determineCase(capdu) = CaseOfShape(Len(capdu.Data) > 0, capdu.Ne > 0)
        /\ (Len(capdu.Data) = 0 /\ ~(capdu.Ne > 0)) =>
              Input = <<capdu.Cla, capdu.Ins, capdu.P1, capdu.P2>>

\* the Lc field of the wire layout
LcField(c) ==
    IF Len(c.Data) = 0 THEN <<>>
    ELSE IF WantsExtended(c) THEN <<0, Len(c.Data) \div 256, Len(c.Data) % 256>>
    ELSE <<Len(c.Data)>>

\* the Le field of the wire layout; a maximal Ne has the bytes 0
LeField(c) ==
    IF c.Ne = 0 THEN <<>>
    ELSE IF ~WantsExtended(c) THEN <<c.Ne % 256>>
    ELSE (IF Len(c.Data) = 0 THEN <<0>> ELSE <<>>)
             \o <<(c.Ne \div 256) % 256, c.Ne % 256>>

\* C8: wire layout and single format decision.  For every Capdu c with
\* 0 <= Ne <= 65536 and len(Data) <= 65535, Bytes() is
\* header ++ LcField ++ Data ++ LeField, where the format is extended iff
\* len(Data) > 255 or Ne > 256 for the whole APDU: Lc is absent without data,
\* one byte in standard and 0x00 hi lo in extended format; Le is absent for
\* Ne = 0, one byte in standard and two big-endian bytes in extended format,
\* after a 0x00 marker only when there is no Lc.
C8_WireLayout ==
    (Serialized /\ InLimits(capdu)) =>
        Input = <<capdu.Cla, capdu.Ins, capdu.P1, capdu.P2>>
                    \o LcField(capdu) \o capdu.Data \o LeField(capdu)

\* 2 data bytes with Ne = 257 were serialized with the extended Lc 00 00 02
C8_Witness ==
    /\ Serialized
    /\ Len(capdu.Data) = 2 /\ capdu.Ne = 257
    /\ buf.len = 11
    /\ InRange(4, 7) = <<0, 0, 2>>

\* the smaller of two numbers
Min(a, b) == IF a <= b THEN a ELSE b

\* C9: permissive truncation.  Bytes() never fails for a Capdu with Ne >= 0.
\* Of more than 65535 data bytes only the first 65535 are emitted, behind the
\* Lc 0x00 0xFF 0xFF; an Ne above 65536 is emitted as 65536 (two zero bytes).
\* The output has 4 to 65544 bytes, ParseCapdu accepts it, and the result is
\* c with Data cut to its first 65535 bytes and Ne clamped to 65536.
C9_Truncation ==
    /\ capdu.Ne >= 0 => pc # "panicked"
    /\ (Serialized /\ capdu.Ne >= 0) =>
          /\ buf.len >= 4 /\ buf.len <= 65544
          /\ Len(capdu.Data) > 65535 =>
                /\ InRange(4, 7) = <<0, 255, 255>>
                /\ InRange(7, 7 + 65535) = SubSeq(capdu.Data, 1, 65535)
                /\ buf.len = 7 + 65535 + (IF capdu.Ne > 0 THEN 2 ELSE 0)
          /\ capdu.Ne > 65536 => LastTwo = <<0, 0>>
    /\ (ParsedBack /\ capdu.Ne >= 0) =>
          /\ res.err = "nil"
          /\ res.capdu = [capdu EXCEPT
                            !.Data = SubSeq(capdu.Data, 1, Min(Len(capdu.Data), 65535)),
                            !.Ne = Min(capdu.Ne, 65536)]

\* 65536 data bytes with Ne = 65537 came back as 65535 bytes with Ne = 65536
C9_Witness ==
    /\ ParsedBack
    /\ Len(capdu.Data) = 65536 /\ capdu.Ne = 65537
    /\ buf.len = 65544
    /\ res.err = "nil"
    /\ Len(res.capdu.Data) = 65535 /\ res.capdu.Ne = 65536

\* C10: length bounds of ParseCapdu.  The invalid-length error is returned
\* for every input shorter than 4 or longer than 65544 bytes, whatever its
\* content, and for no other input; an input of exactly 4 bytes is accepted
\* as case 1, with Cla, Ins, P1, P2 from bytes 0..3, no data and Ne = 0.
C10_LengthBounds ==
    Parsed =>
        /\ res.err = "InvalidLength" <=> (buf.len < 4 \/ buf.len > 65544)
        /\ buf.len = 4 =>
              /\ res.err = "nil" /\ res.layout = 1
              /\ HeaderCopied
              /\ res.capdu.Data = <<>>
              /\ res.capdu.Ne = 0

\* an input of 65545 bytes was rejected for its length
C10_Witness == Parsed /\ buf.len = 65545 /\ res.err = "InvalidLength"

(***************************************************************************)
(* Vocabulary of the properties on responses, hex strings and queries.     *)
(***************************************************************************)
\* a call of ParseCapdu or ParseCapduHexString has returned or panicked
CapduParserCalled == pc \in {"parsed", "hexparsed"}

\* a call of ParseRapdu or ParseRapduHexString has returned or panicked
RapduParserCalled == pc \in {"rparsed", "hexrparsed"}

\* the call returned a non-nil error
IsErr(e) == e \notin {"none", "nil", "panic"}

\* the offset of the data field in the layout the parser recognised
DataOffset == IF res.fmt = "extended" THEN OffsetCdataExtended ELSE OffsetCdataStandard

\* C11: error and result exclude each other.  A non-nil error of ParseCapdu,
\* ParseCapduHexString, ParseRapdu or ParseRapduHexString comes with the zero
\* value (header or status bytes 0, Data nil, Ne 0); a nil error comes with
\* a value made of the input: the header from bytes 0..3, Data from the
\* bytes behind Lc (nil where the layout has none) and Ne from Le, or for a
\* response the status from the last two bytes and Data from those before.
C11_ErrorOrValue ==
    /\ CapduParserCalled =>
          /\ IsErr(res.err) => res.capdu = ZeroCapdu /\ res.dataNil
          /\ res.err = "nil" =>
                /\ HeaderCopied
                /\ res.layout \in {3, 4} =>
                      /\ res.capdu.Data
                            = InRange(DataOffset, DataOffset + Len(res.capdu.Data))
                      /\ DataOffset + Len(res.capdu.Data) <= buf.len
                /\ res.layout \in {1, 2} <=> res.dataNil
                /\ res.layout \in {1, 2} => res.capdu.Data = <<>>
                /\ res.layout \in {1, 3} <=> res.capdu.Ne = 0
    /\ RapduParserCalled =>
          /\ IsErr(rres.err) => rres.rapdu = ZeroRapdu /\ rres.dataNil
          /\ rres.err = "nil" =>
                /\ rres.rapdu.SW1 = InByte(buf.len - 2)
                /\ rres.rapdu.SW2 = InByte(buf.len - 1)
                /\ rres.rapdu.Data = InRange(0, buf.len - 2)

\* an input with a header but a wrong Lc was rejected with the zero value
C11_Witness ==
    /\ pc = "hexparsed"
    /\ str = <<"0", "0", "a", "4", "0", "4", "0", "1", "0", "1">> \o <<"0", "0", "0", "0", "0", "0">>
    /\ res.err = "InvalidLc"
    /\ res.capdu = ZeroCapdu

\* the call ParseRapdu(buf) has been made
RParsed == pc = "rparsed"

\* the call parsed the result of rapdu.Bytes()
RParsedBack == pc = "rparsed" /\ origin = "rbytes"

\* C12: round trip of a response.  For every Rapdu r with at most 65536 data
\* bytes and any SW1, SW2, ParseRapdu(r.Bytes()) returns no error and a value
\* equal to r (a nil and an empty Data being the same empty sequence).
C12_RapduRoundTrip ==
    (RParsedBack /\ Len(rapdu.Data) <= 65536) =>
        /\ rres.err = "nil"
        /\ rres.rapdu = rapdu

\* a response with 65536 data bytes came back as it was
C12_Witness ==
    /\ RParsedBack
    /\ Len(rapdu.Data) = 65536
    /\ buf.len = 65538
    /\ rres.err = "nil"
    /\ rres.rapdu = rapdu

RSerialized == origin = "rbytes" /\ pc \in {"rserialized", "rparsed"}

\* C14: Rapdu.Bytes returns Data' followed by SW1, SW2, where Data' is Data
\* when it has at most 65536 bytes and its first 65536 bytes otherwise; the
\* last two bytes of the output are SW1, SW2 and its length is between 2 and
\* 65538.
C14_RapduBytes ==
    RSerialized =>
        /\ Input = SubSeq(rapdu.Data, 1, Min(Len(rapdu.Data), 65536))
                     \o <<rapdu.SW1, rapdu.SW2>>
        /\ InByte(buf.len - 2) = rapdu.SW1
        /\ InByte(buf.len - 1) = rapdu.SW2
        /\ 2 <= buf.len /\ buf.len <= 65538

\* 65537 data bytes were cut to 65536 in front of the status word
C14_Witness ==
    /\ RSerialized
    /\ Len(rapdu.Data) = 65537
    /\ buf.len = 65538
    /\ InRange(0, 65536) = SubSeq(rapdu.Data, 1, 65536)
    /\ InByte(65536) = rapdu.SW1

\* the query method op has been called on the Capdu the caller built
Answered(op) == pc = "answered" /\ ans.op = op

\* C15: IsExtendedLength reports the format.  c.IsExtendedLength() is true
\* if and only if len(Data) > 255 or Ne > 256: 255 data bytes with Ne = 256
\* are standard, 256 data bytes are extended and so is Ne = 257.
C15_IsExtendedLength ==
    Answered("IsExtendedLength") =>
        /\ ans.val <=> (Len(capdu.Data) > 255 \/ capdu.Ne > 256)
        /\ (Len(capdu.Data) = 255 /\ capdu.Ne = 256) => ans.val = FALSE
        /\ Len(capdu.Data) = 256 => ans.val = TRUE
        /\ capdu.Ne = 257 => ans.val = TRUE

\* 255 data bytes with Ne = 256 were reported as standard
C15_Witness ==
    /\ Answered("IsExtendedLength")
    /\ Len(capdu.Data) = 255 /\ capdu.Ne = 256
    /\ ans.val = FALSE

\* C16: IsExtendedLength as its doc comment and the README describe it: true
\* if len of Data > 65535 or Ne > 65536, and false otherwise.
C16_IsExtendedLengthAsDocumented ==
    Answered("IsExtendedLength") =>
        (ans.val <=> (Len(capdu.Data) > 65535 \/ capdu.Ne > 65536))

\* C17: the Lc query.  c.Lc() returns nil when Data is empty, the one byte
\* len(Data) when Data has 1 to 255 bytes, and the three bytes 0x00,
\* len(Data) >> 8, len(Data) & 0xFF (each taken as a byte) when it has 256 or
\* more; the result depends on len(Data) only: 255 bytes with Ne = 256 give
\* FF, 256 bytes with Ne = 257 give 00 01 00.
C17_LcQuery ==
    Answered("Lc") =>
        LET n == Len(capdu.Data) IN
        /\ n = 0 => ans.val.isNil /\ ans.val.bytes = <<>>
        /\ (1 <= n /\ n <= 255) => ans.val.bytes = <<n>> /\ ~ans.val.isNil
        /\ n >= 256 =>
              /\ ans.val.bytes = <<0, (n \div 256) % 256, n % 256>>
              /\ ~ans.val.isNil
        /\ (n = 255 /\ capdu.Ne = 256) => ans.val.bytes = <<255>>
        /\ (n = 256 /\ capdu.Ne = 257) => ans.val.bytes = <<0, 1, 0>>

\* 255 data bytes gave the one byte FF although Ne = 257 asks for the
\* extended format
C17_Witness ==
    /\ Answered("Lc")
    /\ Len(capdu.Data) = 255 /\ capdu.Ne = 257
    /\ ans.val.bytes = <<255>>

\* a status method has been called
RAnswered(op) == pc = "ranswered" /\ ans.op = op

\* the Rapdu it was called on
Queried == IF ans.on = "built" THEN rapdu ELSE rres.rapdu

\* the method was called on the result of parsing bytes that end in sw
ParsedStatus(sw) == pc = "ranswered" /\ ans.on = "parsed" /\ LastTwo = sw

C19_WarningError ==
    /\ RAnswered("IsWarning") => (ans.val <=> Queried.SW1 \in {98, 99})
    /\ RAnswered("IsError") => (ans.val <=> Queried.SW1 \in {100, 101} \cup (103..111))
    /\ (pc = "ranswered" /\ Queried.SW1 = 106) => (ans.val <=> ans.op = "IsError")
    /\ (RAnswered("IsError") /\ Queried.SW1 = 102) => ans.val = FALSE

\* 6A 88 was reported as an error
C19_Witness ==
    /\ RAnswered("IsError")
    /\ Queried.SW1 = 106 /\ Queried.SW2 = 136
    /\ ans.val = TRUE

\* C20 as stated: for SW1 = 0x66 and for every SW1 in 0x6B..0x6D, with any
\* SW2, both IsWarning() and IsError() return false.
C20_UnclassifiedAreas ==
    (pc = "ranswered" /\ ans.op \in {"IsWarning", "IsError"}
        /\ Queried.SW1 \in {102} \cup (107..109)) => ans.val = FALSE

\* C20: the area outside the documented ranges.  For SW1 = 0x66, with any
\* SW2, both IsWarning() and IsError() return false; every SW1 in 0x6B..0x6D
\* lies in the error range 0x67..0x6F: IsError() returns true and IsWarning()
\* false.
C20_Unclassified ==
    (pc = "ranswered" /\ ans.op \in {"IsWarning", "IsError"}) =>
        /\ Queried.SW1 = 102 => ans.val = FALSE
        /\ Queried.SW1 \in 107..109 => (ans.val <=> ans.op = "IsError")

\* 66 FF was reported as no warning
C20_Witness ==
    /\ RAnswered("IsWarning")
    /\ Queried.SW1 = 102 /\ Queried.SW2 = 255
    /\ ans.val = FALSE

\* a call of ParseCapduHexString has returned or panicked
HexParsed == pc = "hexparsed"

\* a call of ParseRapduHexString has returned or panicked
HexRParsed == pc = "hexrparsed"

\* ch is the hex digit of the value v, in either case of letters
IsDigitOf(ch, v) == ch = LowerDigits[v + 1] \/ ch = UpperDigits[v + 1]

\* s is made of hex digits only
AllHex(s) == \A i \in 1..Len(s) : \E v \in 0..15 : IsDigitOf(s[i], v)

\* the bytes of the slice b are the bytes the string s spells
Spelled(b, s) ==
    /\ b.len = Len(s) \div 2
    /\ \A i \in 1..b.len :
          /\ IsDigitOf(s[2 * i - 1], b.arr[i] \div 16)
          /\ IsDigitOf(s[2 * i], b.arr[i] % 16)

\* C21: the hex-string parsers add no codec logic.  ParseCapduHexString(s)
\* returns an error when len(s) is odd, when len(s) is outside 8..131088 or
\* when s holds a character that is no hex digit; for every other s it
\* returns what ParseCapdu returns on the bytes s spells.
\* ParseRapduHexString does the same with 4..131076 and ParseRapdu.  The
\* bounds are twice those of the byte parsers: a string of even length is
\* rejected for its length iff the byte parser rejects half that length.
C21_HexWrappers ==
    (HexParsed \/ HexRParsed) =>
        LET s == str
            b == buf
        IN  /\ HexParsed =>
                  IF Len(s) % 2 # 0 \/ Len(s) < 8 \/ Len(s) > 131088 \/ ~AllHex(s)
                  THEN IsErr(res.err)
                  ELSE Spelled(b, s) /\ res = ParseCapdu(b)
            /\ HexRParsed =>
                  IF Len(s) % 2 # 0 \/ Len(s) < 4 \/ Len(s) > 131076 \/ ~AllHex(s)
                  THEN IsErr(rres.err)
                  ELSE Spelled(b, s) /\ rres = ParseRapdu(b)
            /\ (HexParsed /\ Len(s) % 2 = 0) =>
                  ((Len(s) < 8 \/ Len(s) > 131088) <=> ~LengthValid(Len(s) \div 2))
            /\ (HexRParsed /\ Len(s) % 2 = 0) =>
                  ((Len(s) < 4 \/ Len(s) > 131076) <=> ~RLengthValid(Len(s) \div 2))

\* a string of 131088 hex digits was parsed as the longest command
C21_Witness ==
    /\ HexParsed
    /\ Len(str) = 131088
    /\ res.err = "nil"
    /\ Len(res.capdu.Data) = 65535
    /\ res.capdu.Ne = Uint16(Slice(buf, 65542, 65544))

\* the two threads have both called, and nobody has written since
BothCalled == hpc = "calling" /\ \A t \in Threads : thr[t].op # "none"

\* C22: no shared mutable state.  While threads call the operations
\* (ParseCapdu, ParseRapdu, the hex wrappers, Bytes, Lc, IsExtendedLength,
\* String, IsSuccess, IsWarning, IsError) on the same input and the same
\* value, in any order, each call returns what it returns on the memory the
\* calls began with, and no array of that memory, nor the value, is changed.
C22_NoSharedState ==
    hpc = "calling" =>
        /\ hVal = snap.val
        /\ \A id \in 1..Len(snap.heap) : heap[id] = snap.heap[id]
        /\ \A t \in Threads :
              thr[t].op # "none" =>
                  thr[t].result =
                      MemResult(thr[t].op, snap.heap, hBuf, hStr, snap.val, thr[t].opt)

\* one thread has serialized the value while the other parsed the input it
\* came from, which the caller had written to
C22_Witness ==
    /\ BothCalled
    /\ thr[1].op \in {"Bytes", "RBytes"}
    /\ thr[2].op \in {"ParseCapdu", "ParseRapdu"}
    /\ Deref(heap, hBuf) # Deref(heap, hVal.Data)
    /\ hSeen # Deref(heap, hVal.Data)
    /\ Len(heap) > Len(snap.heap)

\* the strict Capdu.Bytes/String and the strict Rapdu.Bytes/String have returned
StrictCalled == pc = "strict"

RStrictCalled == pc = "rstrict"

\* the bytes hold the whole of data from offset at on
Holds(bytes, at, data) == SubSeq(bytes, at + 1, at + Len(data)) = data

\* C23: the strict revision.  Capdu.Bytes returns nil bytes and a non-nil
\* error exactly when len(Data) > 65535 or Ne > 65536, Rapdu.Bytes exactly
\* when len(Data) > 65536; a successful call returns the data in full;
\* String() returns the empty string with the error of Bytes(); for every
\* value within the limits the error is nil.
C23_StrictErrors ==
    LET o == out
        c == capdu
        r == rapdu
    IN  /\ StrictCalled =>
              /\ IsErr(o.err) <=> (Len(c.Data) > 65535 \/ c.Ne > 65536)
              /\ IsErr(o.err) => o.isNil /\ o.bytes = <<>> /\ o.text = <<>>
              /\ InLimits(c) => o.err = "nil"
              /\ o.op = "Bytes" /\ o.err = "nil" =>
                    /\ ~o.isNil
                    /\ Len(o.bytes) >= LenHeader + Len(c.Data)
                    /\ Len(c.Data) > 0 =>
                          \/ Holds(o.bytes, OffsetCdataStandard, c.Data)
                          \/ Holds(o.bytes, OffsetCdataExtended, c.Data)
              /\ o.op = "String" /\ o.err = "nil" =>
                    Len(o.text) >= 2 * (LenHeader + Len(c.Data))
        /\ RStrictCalled =>
              /\ IsErr(o.err) <=> Len(r.Data) > 65536
              /\ IsErr(o.err) => o.isNil /\ o.bytes = <<>> /\ o.text = <<>>
              /\ o.op = "Bytes" /\ o.err = "nil" =>
                    ~o.isNil /\ o.bytes = r.Data \o <<r.SW1, r.SW2>>
              /\ o.op = "String" /\ o.err = "nil" =>
                    Len(o.text) = 2 * (Len(r.Data) + LenResponseTrailer)

\* Bytes() has refused a Capdu with the longest data for its Ne alone
C23_Witness ==
    /\ StrictCalled
    /\ out.op = "Bytes"
    /\ IsErr(out.err)
    /\ Len(capdu.Data) = 65535
    /\ capdu.Ne = 65537

\* C24: the parsed shape matches the recognised wire case.  For every input
\* ParseCapdu accepts, Data is non-empty exactly when the parser recognised
\* a layout with an Lc field (case 3 or 4), Ne > 0 exactly when it
\* recognised one with an Le field (case 2 or 4), so that determineCase of
\* the result is the recognised case.
C24_ShapeMatchesLayout ==
    Parsed /\ res.err = "nil" =>
        /\ Len(res.capdu.Data) > 0 <=> res.layout \in {3, 4}
        /\ res.capdu.Ne > 0 <=> res.layout \in {2, 4}
        /\ determineCase(res.capdu) = res.layout

\* Lc() has been asked of the Capdu that Bytes() has serialized into buf
LcAfterBytes == pc = "answered" /\ ans.op = "Lc" /\ ans.on = "serialized"

\* C25: Lc() agrees with the serializer.  For every Capdu c with non-empty
\* Data, c.Lc() returns the Lc field that c.Bytes() writes right behind the
\* 4-byte header, for every Ne and every data length.
C25_LcAgreesWithBytes ==
    LET c == capdu
        b == buf
    IN  LcAfterBytes /\ Len(c.Data) > 0 =>
            /\ ~ans.val.isNil
            /\ ans.val.bytes =
                  SubSeq(b.arr, LenHeader + 1,
                         LenHeader + (IF b.arr[OffsetLcStandard + 1] = 0
                                      THEN LenLCExtended ELSE LenLCStandard))

\* C26: parsed values own their data.  After ParseCapdu(b) or ParseRapdu(b)
\* has succeeded, a write by the caller to any byte of b leaves the Data of
\* the returned value as it was when the parser returned.
C26_OwnsData ==
    hpc = "written" => Deref(heap, hVal.Data) = hSeen

\* ParseCapdu has parsed the bytes of the Capdu it had returned for an input
Reparsed == pc = "parsed" /\ origin = "again"

\* Bytes() has serialized the Capdu parsed from the bytes of a parsed Capdu
Reserialized == pc = "serialized" /\ origin = "twice"

\* C27: re-encoding is a normal form.  For every input b that ParseCapdu
\* accepts, ParseCapdu(ParseCapdu(b).Bytes()) succeeds and returns a Capdu
\* equal to ParseCapdu(b), and Bytes() of that result returns the bytes
\* that were parsed, ParseCapdu(b).Bytes().
C27_NormalForm ==
    /\ origin \in {"again", "twice"} => pc # "panicked"
    /\ Reparsed => res.err = "nil" /\ res.capdu = capdu
    /\ Reserialized => Contents(buf) = Unpack(mPrev)

\* an extended-length encoding of one data byte was parsed, serialized in
\* the standard format and parsed again
C27_Witness ==
    /\ Reparsed
    /\ Len(capdu.Data) = 1
    /\ Unpack(mPrev)[OffsetLcStandard + 1] = 0
    /\ InByte(OffsetLcStandard) = 1
    /\ Len(Unpack(mPrev)) > buf.len

\* C28: the data model holds of parse results.  Every Capdu that ParseCapdu
\* or ParseCapduHexString returns without error has 0 <= Ne <= 65536 and at
\* most 65535 data bytes, and Ne <= 256 and at most 255 data bytes when the
\* input was parsed as standard length; every Rapdu that ParseRapdu or
\* ParseRapduHexString returns without error has at most 65536 data bytes.
C28_ParsedInLimits ==
    /\ CapduParserCalled /\ res.err = "nil" =>
          LET c == res.capdu IN
          /\ 0 <= c.Ne /\ c.Ne <= 65536
          /\ Len(c.Data) <= 65535
          /\ res.fmt = "standard" => c.Ne <= 256 /\ Len(c.Data) <= 255
    /\ RapduParserCalled /\ rres.err = "nil" => Len(rres.rapdu.Data) <= 65536

\* the longest command was parsed: 65535 data bytes and Ne = 65536
C28_Witness ==
    /\ Parsed
    /\ res.err = "nil"
    /\ res.fmt = "extended"
    /\ Len(res.capdu.Data) = 65535
    /\ res.capdu.Ne = 65536

\* the threads that hold a slice returned by Bytes()
Holders == {t \in Threads : thr[t].op \in {"Bytes", "RBytes"}}

\* the array of slice p is also that of slice q
Shares(p, q) == p.id # 0 /\ p.id = q.id

\* C29: the output of Bytes() is a fresh buffer owned by the caller.  The
\* slice that Bytes() returns shares no memory with the receiver's Data,
\* with the input it was parsed from, or with the slice another call of
\* Bytes() returned; Bytes() leaves the receiver unchanged; and a write to
\* the returned bytes changes neither the receiver nor the bytes another
\* call returned.
C29_FreshOutput ==
    hpc \in {"calling", "touched"} /\ hVal.kind # "none" =>
        /\ hVal = snap.val
        /\ Deref(heap, hVal.Data) = Deref(snap.heap, snap.val.Data)
        /\ Deref(heap, hBuf) = Deref(snap.heap, hBuf)
        /\ \A t \in Holders :
              /\ thr[t].out.id > Len(snap.heap)
              /\ ~Shares(thr[t].out, hVal.Data)
              /\ ~Shares(thr[t].out, hBuf)
              /\ \A u \in Holders \ {t} :
                    /\ ~Shares(thr[t].out, thr[u].out)
                    /\ \/ Deref(heap, thr[t].out) = thr[t].result
                       \/ Deref(heap, thr[u].out) = thr[u].result

\* two calls of Bytes() on one value have returned, and one of the two
\* buffers has been written to
C29_Witness ==
    /\ hpc = "touched"
    /\ Holders = Threads
    /\ Len(hSeen) > 0
    /\ \E t \in Threads : Deref(heap, thr[t].out) # thr[t].result

\* the three predicates have been called on one Rapdu
AllAsked == pc = "ranswered" /\ {a[1] : a \in told} = {"IsSuccess", "IsWarning", "IsError"}

\* C30: the status predicates are mutually exclusive.  For every SW1, SW2
\* at most one of IsSuccess(), IsWarning() and IsError() is true of a
\* Rapdu, and for SW1 = 0x66 and for SW1 = 0x90 with SW2 # 0x00 none is.
C30_Exclusive ==
    pc = "ranswered" =>
        /\ Cardinality({a \in told : a[2]}) <= 1
        /\ \A a \in told :
              \/ Queried.SW1 = 102
              \/ Queried.SW1 = 144 /\ Queried.SW2 # 0
              => ~a[2]

\* the three predicates were called on 90 01 and none was true
C30_Witness ==
    /\ AllAsked
    /\ Queried.SW1 = 144
    /\ Queried.SW2 = 1
    /\ \A a \in told : ~a[2]

====
